---------------------------- MODULE Spec2Model ----------------------------
(***************************************************************************)
(* Math-Learning-Agent: the guardrail gate, the router, the solver, the    *)
(* RAG answerer, the feedback store, the DSPy optimization loop and the    *)
(* document index, modelled from the Python sources.                       *)
(*                                                                         *)
(* Python dicts are records (a missing key is a missing field), Python     *)
(* lists are sequences, None is the string "None" where the other values   *)
(* are strings and the record NoneVal where they are dicts.  Floats are    *)
(* kept in tenths (0.7 is 7).  A model (LLM) call is an input of the       *)
(* action that makes it: a reply record with ok = FALSE is a call that     *)
(* raised, with ok = TRUE the lines the reply holds.                       *)
(***************************************************************************)
EXTENDS Integers, Sequences, FiniteSets, TLC

VARIABLES
    \* ---- solve / RAG pipeline (one orchestrator, one RAG agent)
    enable_guardrails,  \* MathAgentOrchestrator.enable_guardrails / RAGAgent.enable_guardrails
    strict_mode,        \* InputGuardrail.strict_mode
    phase,              \* "idle": no request in progress, "done": a request has returned
    request,            \* the arguments of the last call
    result,             \* the dict the last call returned
    calls,              \* the model invocations of the last call, in order
    prompt,             \* what the solver model was invoked with in the last call
    \* ---- feedback store and optimization loop
    feedback_file,      \* data/feedback/feedback_log.json
    now,                \* datetime.now(): the number of feedback calls started
    collected,          \* the entries collect_feedback returned since the store was last empty
    cleared,            \* the store has been cleared
    fb,                 \* per client: where its collect_feedback call stands
    enable_dspy,        \* MathAgentOrchestrator.enable_dspy
    optimized_solvers,  \* DSPyFeedbackOptimizer.optimized_solvers of the orchestrator
    solver_files,       \* data/dspy_optimized/<category>_optimized.json
    learn_last,         \* the last operation on the store or the optimizer
    opt_request,        \* the arguments of optimize_with_dspy, when it was the last operation
    opt_result,         \* the dict optimize_with_dspy or get_feedback_stats returned, when it was the last operation
    \* ---- concurrent sessions, each with its own orchestrator
    opt,                \* per session: its DSPyFeedbackOptimizer and where its optimization run stands
    slv,                \* the solve_with_dspy call in progress, or the last one
    loaded,             \* what the last construction of an optimizer found on disk
    committed,          \* per category: the ExemplarSet last written to disk completely
    \* ---- document index (one Chroma database, one VectorStoreManager per session)
    collection,         \* the collection "math_documents" of the database
    vsm,                \* per session: its VectorStoreManager and where its call stands
    stamp,              \* the number of index calls started
    stale_works         \* Chroma resolves a collection handle by name (TRUE) or by id (FALSE)

pipeVars == <<enable_guardrails, strict_mode, phase, request, result, calls, prompt>>

storeVars == <<feedback_file, now, collected, cleared, fb>>

optVars == <<enable_dspy, optimized_solvers, solver_files, learn_last,
             opt_request, opt_result>>

raceVars == <<opt, slv, loaded, committed>>

indexVars == <<collection, vsm, stamp, stale_works>>

vars == <<pipeVars, storeVars, optVars, raceVars, indexVars>>

-----------------------------------------------------------------------------
(* Bounds *)

\* the largest number of MATH_KEYWORDS a question holds
MaxKw == 1
\* the largest number of chunks a retrieval returns
MaxCtx == 1
\* the largest number of collect_feedback calls
MaxFeedback == 3
\* the number of clients that call collect_feedback concurrently
NumClients == 2

-----------------------------------------------------------------------------
(* Values *)

NoneVal == [none |-> TRUE]

\* RouterAgent.PROBLEM_TYPES
PROBLEM_TYPES == {"algebra", "calculus", "geometry", "statistics", "general"}

QTexts == {"q1", "q2"}

\* A question: its text and what _quick_keyword_check reads from it.
Questions ==
    [text : QTexts, kw : 0..MaxKw, num : BOOLEAN, op : BOOLEAN, xvar : BOOLEAN]

\* str.lower() on the tokens a model reply can hold
Lower(tok) ==
    CASE tok = "Algebra"  -> "algebra"
      [] tok = "CALCULUS" -> "calculus"
      [] tok = "Blocked"  -> "blocked"
      [] tok = "Physics"  -> "physics"
      [] OTHER            -> tok

\* "YES" in line.upper()
HasYes(tok) == tok \in {"YES", "yes", "Yes"}

\* float(text) of a CONFIDENCE line, 0.5 when it does not parse
ParseConfidence(tok) ==
    CASE tok = "0.9" -> 9
      [] tok = "1.0" -> 10
      [] tok = "absent" -> 0
      [] OTHER -> 5

\* The replies of the input judge: the four lines it may hold ("absent": no
\* such line), or a call that raised.
InputJudgeReplies ==
    { [ok |-> TRUE, valid |-> "YES", category |-> "Algebra", reason |-> "math question", confidence |-> "0.9"],
      [ok |-> TRUE, valid |-> "yes", category |-> "mathematics", reason |-> "absent", confidence |-> "high"],
      [ok |-> TRUE, valid |-> "NO", category |-> "non-mathematics", reason |-> "off topic", confidence |-> "1.0"],
      [ok |-> TRUE, valid |-> "absent", category |-> "absent", reason |-> "absent", confidence |-> "absent"],
      [ok |-> FALSE, err |-> "judge down"] }

\* The replies of the classifier: its content, and the Category: and Reasoning:
\* lines found in it.
ClassifierReplies ==
    { [ok |-> TRUE, content |-> "c1", category |-> "Algebra", reasoning |-> "equation"],
      [ok |-> TRUE, content |-> "c2", category |-> "CALCULUS", reasoning |-> "absent"],
      [ok |-> TRUE, content |-> "c3", category |-> "geometry", reasoning |-> "shape"],
      [ok |-> TRUE, content |-> "c4", category |-> "general", reasoning |-> "basic"],
      [ok |-> TRUE, content |-> "c5", category |-> "Physics", reasoning |-> "forces"],
      [ok |-> TRUE, content |-> "c6", category |-> "Blocked", reasoning |-> "refused"],
      [ok |-> TRUE, content |-> "c7", category |-> "absent", reasoning |-> "absent"],
      [ok |-> FALSE, err |-> "classifier down"] }

\* The replies of the solver model and of the RAG answer model.
SolverReplies ==
    { [ok |-> TRUE, content |-> "x = 5"],
      [ok |-> TRUE, content |-> "a poem"],
      [ok |-> FALSE, err |-> "solver down"] }

\* The replies of the output judge.
OutputJudgeReplies ==
    { [ok |-> TRUE, approved |-> "YES", on_topic |-> "YES", educational |-> "YES", issues |-> "None", confidence |-> "0.9"],
      [ok |-> TRUE, approved |-> "NO", on_topic |-> "NO", educational |-> "YES", issues |-> "off topic", confidence |-> "high"],
      [ok |-> TRUE, approved |-> "absent", on_topic |-> "absent", educational |-> "absent", issues |-> "absent", confidence |-> "absent"],
      [ok |-> FALSE, err |-> "judge down"] }

\* The categories a caller passes to solve_problem / answer_question.
CallerCategories == PROBLEM_TYPES \cup {"blocked"}

-----------------------------------------------------------------------------
(* InputGuardrail *)

\* _quick_keyword_check: the threshold of the relevance score
Threshold == 2
\* the confidence of the short-circuit verdict, in tenths
QuickFailConfidence == 7

RelevanceScore(q) ==
    q.kw + (IF q.num THEN 1 ELSE 0) + (IF q.op THEN 2 ELSE 0)
         + (IF q.xvar THEN 1 ELSE 0)

\* a mutant of QuickKeywordCheck: the threshold off by one
QuickKeywordCheckLow(q) == RelevanceScore(q) >= Threshold - 1

QuickKeywordCheck(q) == RelevanceScore(q) >= Threshold

\* the short-circuit of validate: no model call
QuickReject(q, strict) == ~QuickKeywordCheck(q) /\ strict

\* a mutant of JudgeErrorVerdict: a failed judge call always lets the input pass
JudgeErrorVerdictOpen(q, strict, jr) ==
    [valid |-> TRUE,
     category |-> "error",
     reason |-> "Validation error: " \o jr.err,
     confidence |-> 0,
     quick_check_passed |-> QuickKeywordCheck(q)]

\* the verdict of validate when the judge call raised
JudgeErrorVerdict(q, strict, jr) ==
    [valid |-> ~strict,
     category |-> "error",
     reason |-> "Validation error: " \o jr.err,
     confidence |-> 0,
     quick_check_passed |-> QuickKeywordCheck(q)]

\* the verdict of validate parsed from the judge's reply
JudgeVerdict(q, jr) ==
    [valid |-> HasYes(jr.valid),
     category |-> IF jr.category = "absent" THEN "unknown" ELSE Lower(jr.category),
     reason |-> IF jr.reason = "absent" THEN "" ELSE jr.reason,
     confidence |-> ParseConfidence(jr.confidence),
     quick_check_passed |-> QuickKeywordCheck(q)]

\* InputGuardrail.validate: the verdict and the model calls made
InputValidate(q, strict, jr) ==
    IF QuickReject(q, strict)
    THEN [res |-> [valid |-> FALSE,
                   category |-> "non-mathematics",
                   reason |-> "Input does not appear to be mathematics-related.",
                   confidence |-> QuickFailConfidence,
                   quick_check_passed |-> FALSE],
          calls |-> <<>>]
    ELSE [res |-> IF jr.ok THEN JudgeVerdict(q, jr) ELSE JudgeErrorVerdict(q, strict, jr),
          calls |-> <<"input_judge">>]

-----------------------------------------------------------------------------
(* OutputGuardrail *)

\* _create_fallback_response
CreateFallbackResponse(qtext, category) ==
    "I can only provide help with mathematics education"
        \o (IF category = "None" THEN "" ELSE " related to " \o category)
        \o ". Your question was: " \o qtext

\* the issues list parsed from the ISSUES: line
ParseIssues(tok) ==
    IF tok \in {"absent", "None", "none"} THEN <<>> ELSE <<tok>>

\* a mutant of OutputValidate: a rejected answer is kept as the response
OutputValidateKeeps(ai_response, qtext, category, oj) ==
    IF oj.ok
    THEN [approved |-> HasYes(oj.approved),
          on_topic |-> HasYes(oj.on_topic),
          educational |-> HasYes(oj.educational),
          issues |-> ParseIssues(oj.issues),
          confidence |-> ParseConfidence(oj.confidence),
          modified_response |-> ai_response]
    ELSE [approved |-> TRUE,
          on_topic |-> TRUE,
          educational |-> TRUE,
          issues |-> <<"Validation error: " \o oj.err>>,
          confidence |-> 0,
          modified_response |-> ai_response]

\* a mutant of OutputValidate: a failed judge call rejects the answer
OutputValidateClosed(ai_response, qtext, category, oj) ==
    IF oj.ok
    THEN [approved |-> HasYes(oj.approved),
          on_topic |-> HasYes(oj.on_topic),
          educational |-> HasYes(oj.educational),
          issues |-> ParseIssues(oj.issues),
          confidence |-> ParseConfidence(oj.confidence),
          modified_response |-> IF HasYes(oj.approved) THEN ai_response
                                ELSE CreateFallbackResponse(qtext, category)]
    ELSE [approved |-> FALSE,
          on_topic |-> TRUE,
          educational |-> TRUE,
          issues |-> <<"Validation error: " \o oj.err>>,
          confidence |-> 0,
          modified_response |-> CreateFallbackResponse(qtext, category)]

\* OutputGuardrail.validate (the quick response check only logs)
OutputValidate(ai_response, qtext, category, oj) ==
    IF oj.ok
    THEN [approved |-> HasYes(oj.approved),
          on_topic |-> HasYes(oj.on_topic),
          educational |-> HasYes(oj.educational),
          issues |-> ParseIssues(oj.issues),
          confidence |-> ParseConfidence(oj.confidence),
          modified_response |-> IF HasYes(oj.approved) THEN ai_response
                                ELSE CreateFallbackResponse(qtext, category)]
    ELSE [approved |-> TRUE,
          on_topic |-> TRUE,
          educational |-> TRUE,
          issues |-> <<"Validation error: " \o oj.err>>,
          confidence |-> 0,
          modified_response |-> ai_response]

\* GuardrailManager.get_safe_response: the text returned and the model calls made
GetSafeResponse(ai_response, qtext, category, oj) ==
    [res |-> OutputValidate(ai_response, qtext, category, oj).modified_response,
     calls |-> <<"output_judge">>]

-----------------------------------------------------------------------------
(* RouterAgent *)

\* the category parsed from the classifier's reply, before it is validated
ParsedCategory(cr) ==
    IF cr.category = "absent" THEN "general" ELSE Lower(cr.category)

\* a mutant of CoerceCategory: the parsed token is returned as it is
CoerceCategoryNone(category) == category

\* "Validate category": an out-of-set token becomes general
CoerceCategory(category) ==
    IF category \notin PROBLEM_TYPES THEN "general" ELSE category

\* a mutant of BlockedRouting: the rejection is not marked as blocked
BlockedRoutingUnmarked(verdict) ==
    [category |-> "blocked",
     reasoning |-> verdict.reason,
     raw_response |-> "",
     guardrail_status |-> "approved",
     guardrail_details |-> verdict]

\* the dict route_problem returns when the input guardrail rejects
BlockedRouting(verdict) ==
    [category |-> "blocked",
     reasoning |-> verdict.reason,
     raw_response |-> "",
     guardrail_status |-> "blocked",
     guardrail_details |-> verdict]

\* a mutant of RouteProblem: a classifier call that raised is made again
RouteProblemRetry(q, eg, strict, jr, cr) ==
    LET g == IF eg THEN InputValidate(q, strict, jr)
                   ELSE [res |-> NoneVal, calls |-> <<>>]
        status == IF eg THEN "approved" ELSE "disabled"
    IN  IF eg /\ ~g.res.valid
        THEN [res |-> BlockedRouting(g.res), calls |-> g.calls]
        ELSE [res |-> IF cr.ok
                      THEN [category |-> CoerceCategory(ParsedCategory(cr)),
                            reasoning |-> IF cr.reasoning = "absent" THEN "" ELSE cr.reasoning,
                            raw_response |-> cr.content,
                            guardrail_status |-> status,
                            guardrail_details |-> g.res]
                      ELSE [category |-> "general",
                            reasoning |-> "Error in routing: " \o cr.err,
                            raw_response |-> "",
                            guardrail_status |-> status,
                            guardrail_details |-> g.res],
              calls |-> g.calls \o (IF cr.ok THEN <<"classifier">>
                                             ELSE <<"classifier", "classifier">>)]

\* RouterAgent.route_problem: the dict returned and the model calls made
RouteProblem(q, eg, strict, jr, cr) ==
    LET g == IF eg THEN InputValidate(q, strict, jr)
                   ELSE [res |-> NoneVal, calls |-> <<>>]
        status == IF eg THEN "approved" ELSE "disabled"
    IN  IF eg /\ ~g.res.valid
        THEN [res |-> BlockedRouting(g.res), calls |-> g.calls]
        ELSE [res |-> IF cr.ok
                      THEN [category |-> CoerceCategory(ParsedCategory(cr)),
                            reasoning |-> IF cr.reasoning = "absent" THEN "" ELSE cr.reasoning,
                            raw_response |-> cr.content,
                            guardrail_status |-> status,
                            guardrail_details |-> g.res]
                      ELSE [category |-> "general",
                            reasoning |-> "Error in routing: " \o cr.err,
                            raw_response |-> "",
                            guardrail_status |-> status,
                            guardrail_details |-> g.res],
              calls |-> g.calls \o <<"classifier">>]

-----------------------------------------------------------------------------
(* SolverAgent *)

\* settings.LLM_MODEL
LLM_MODEL == "llama-3.3-70b-versatile"

\* settings.TEMPERATURE_CONFIG.get(category, 0.3), in tenths
Temperature(category) ==
    CASE category \in {"algebra", "calculus"}    -> 3
      [] category \in {"geometry", "statistics"} -> 4
      [] category = "general"                    -> 5
      [] OTHER                                   -> 3

\* what solve_problem invokes the solver model with: the template of the
\* category (self.solver_prompts.get(category, general)) filled with the
\* problem; the templates hold no demonstrations
SolverPrompt(q, category) ==
    [template |-> IF category \in PROBLEM_TYPES THEN category ELSE "general",
     problem |-> q.text,
     demos |-> <<>>]

\* a mutant of SolveStatus: a disabled guardrail is reported as disabled
SolveStatusDisabled(eg, verdict) ==
    IF ~eg THEN "disabled" ELSE IF verdict.approved THEN "approved" ELSE "modified"

\* the guardrail_status of a solution that was generated
SolveStatus(eg, verdict) ==
    IF ~eg \/ verdict.approved THEN "approved" ELSE "modified"

\* a mutant of SolveError: the failure is not reported as an error outcome
SolveErrorApproved(q, category, model, sr) ==
    [problem |-> q.text,
     category |-> category,
     solution |-> "Error solving problem: " \o sr.err,
     model_used |-> IF model = "None" THEN LLM_MODEL ELSE model,
     temperature |-> 3,
     error |-> sr.err,
     guardrail_status |-> "approved",
     guardrail_details |-> NoneVal]

\* the dict solve_problem returns when the solver model raised
SolveError(q, category, model, sr) ==
    [problem |-> q.text,
     category |-> category,
     solution |-> "Error solving problem: " \o sr.err,
     model_used |-> IF model = "None" THEN LLM_MODEL ELSE model,
     temperature |-> 3,
     error |-> sr.err,
     guardrail_status |-> "error",
     guardrail_details |-> NoneVal]

\* SolverAgent.solve_problem: the dict returned and the model calls made
SolveProblem(q, category, model, eg, sr, oj) ==
    IF ~sr.ok
    THEN [res |-> SolveError(q, category, model, sr), calls |-> <<"solver">>]
    ELSE LET verdict == IF eg THEN OutputValidate(sr.content, q.text, category, oj)
                              ELSE NoneVal
         IN  [res |-> [problem |-> q.text,
                       category |-> category,
                       solution |-> IF eg /\ ~verdict.approved
                                    THEN verdict.modified_response
                                    ELSE sr.content,
                       model_used |-> IF model = "None" THEN LLM_MODEL ELSE model,
                       temperature |-> Temperature(category),
                       guardrail_status |-> SolveStatus(eg, verdict),
                       guardrail_details |-> verdict],
              calls |-> IF eg THEN <<"solver", "output_judge">> ELSE <<"solver">>]

-----------------------------------------------------------------------------
(* MathAgentOrchestrator.process_problem *)

\* the solution dict of a request the input guardrail blocked
BlockedSolution(q, routing) ==
    [solution |-> routing.reasoning,
     category |-> "blocked",
     problem |-> q.text]

ProcessProblem(q, model, eg, strict, jr, cr, sr, oj) ==
    LET r == RouteProblem(q, eg, strict, jr, cr)
    IN  IF r.res.guardrail_status = "blocked"
        THEN [res |-> [problem |-> q.text,
                       routing |-> r.res,
                       solution |-> BlockedSolution(q, r.res),
                       pipeline_status |-> "blocked_by_guardrail",
                       guardrail_blocked |-> TRUE],
              calls |-> r.calls]
        ELSE LET s == SolveProblem(q, r.res.category, model, eg, sr, oj)
             IN  [res |-> [problem |-> q.text,
                           routing |-> r.res,
                           solution |-> s.res,
                           pipeline_status |-> "success",
                           guardrail_input_status |-> r.res.guardrail_status,
                           guardrail_output_status |-> s.res.guardrail_status],
                  calls |-> r.calls \o s.calls]

-----------------------------------------------------------------------------
(* RAGAgent.answer_question *)

\* the file names of the ingested documents
Sources == {"a.pdf", "b.pdf"}

\* what vector_store.search returns: the sources of the retrieved chunks
Retrievals == UNION { [1..n -> Sources] : n \in 0..MaxCtx }

\* _extract_sources
ExtractSources(chunks) == { chunks[i] : i \in 1..Len(chunks) }

\* the guardrail_status of a generated answer
AnswerStatus(eg, verdict) ==
    IF eg /\ ~verdict.approved THEN "modified" ELSE "approved"

\* the answer when retrieval returned nothing
NoContextAnswer ==
    "No relevant information found in the knowledge base. Please upload relevant documents first."

\* a mutant of NoContext: an empty retrieval goes on to the model
NoContextNever(chunks) == FALSE

\* "if not context_chunks": retrieval returned nothing
NoContext(chunks) == chunks = <<>>

AnswerQuestion(q, category, chunks, eg, strict, jr, ar, oj) ==
    LET g == IF eg THEN InputValidate(q, strict, jr)
                   ELSE [res |-> NoneVal, calls |-> <<>>]
    IN  IF eg /\ ~g.res.valid
        THEN [res |-> [success |-> FALSE,
                       answer |-> g.res.reason,
                       sources |-> {},
                       context_used |-> 0,
                       guardrail_status |-> "input_blocked",
                       guardrail_details |-> g.res],
              calls |-> g.calls]
        ELSE IF NoContext(chunks)
        THEN [res |-> [success |-> FALSE,
                       answer |-> NoContextAnswer,
                       sources |-> {},
                       context_used |-> 0,
                       guardrail_status |-> "no_context"],
              calls |-> g.calls]
        ELSE IF ~ar.ok
        THEN [res |-> [success |-> FALSE,
                       answer |-> "Error generating answer: " \o ar.err,
                       sources |-> {},
                       context_used |-> 0,
                       guardrail_status |-> "error"],
              calls |-> g.calls \o <<"rag_model">>]
        ELSE LET verdict == IF eg THEN OutputValidate(ar.content, q.text, category, oj)
                                  ELSE NoneVal
             IN  [res |-> [success |-> TRUE,
                           question |-> q.text,
                           answer |-> IF eg /\ ~verdict.approved
                                      THEN verdict.modified_response
                                      ELSE ar.content,
                           sources |-> ExtractSources(chunks),
                           context_used |-> Len(chunks),
                           model_used |-> "groq/" \o LLM_MODEL,
                           guardrail_status |-> AnswerStatus(eg, verdict)],
                  calls |-> g.calls \o (IF eg THEN <<"rag_model", "output_judge">>
                                              ELSE <<"rag_model">>)]

-----------------------------------------------------------------------------
(* The requests *)

NoRequest == [op |-> "none"]

\* the model override a caller may pass
Models == {"None", "mixtral-8x7b-32768"}

\* InputGuardrail.validate called on its own (test_input_guardrail)
DoValidate ==
    /\ phase = "idle"
    /\ \E q \in Questions, jr \in InputJudgeReplies :
          LET out == InputValidate(q, strict_mode, jr)
          IN  /\ request' = [op |-> "validate", q |-> q, jr |-> jr]
              /\ result' = out.res
              /\ calls' = out.calls
              /\ prompt' = NoneVal
    /\ phase' = "done"
    /\ UNCHANGED <<enable_guardrails, strict_mode, storeVars, optVars, raceVars, indexVars>>

\* RouterAgent.route_problem
DoRoute ==
    /\ phase = "idle"
    /\ \E q \in Questions, jr \in InputJudgeReplies, cr \in ClassifierReplies :
          LET out == RouteProblem(q, enable_guardrails, strict_mode, jr, cr)
          IN  /\ request' = [op |-> "route", q |-> q, jr |-> jr, cr |-> cr]
              /\ result' = out.res
              /\ calls' = out.calls
              /\ prompt' = NoneVal
    /\ phase' = "done"
    /\ UNCHANGED <<enable_guardrails, strict_mode, storeVars, optVars, raceVars, indexVars>>

\* SolverAgent.solve_problem
DoSolve ==
    /\ phase = "idle"
    /\ \E q \in Questions, c \in CallerCategories, m \in Models,
          sr \in SolverReplies, oj \in OutputJudgeReplies :
          LET out == SolveProblem(q, c, m, enable_guardrails, sr, oj)
          IN  /\ request' = [op |-> "solve", q |-> q, category |-> c, sr |-> sr, oj |-> oj]
              /\ result' = out.res
              /\ calls' = out.calls
              /\ prompt' = SolverPrompt(q, c)
    /\ phase' = "done"
    /\ UNCHANGED <<enable_guardrails, strict_mode, storeVars, optVars, raceVars, indexVars>>

\* MathAgentOrchestrator.process_problem
DoProcess ==
    /\ phase = "idle"
    /\ \E q \in Questions, m \in Models, jr \in InputJudgeReplies,
          cr \in ClassifierReplies, sr \in SolverReplies, oj \in OutputJudgeReplies :
          LET out == ProcessProblem(q, m, enable_guardrails, strict_mode, jr, cr, sr, oj)
          IN  /\ request' = [op |-> "process", q |-> q, jr |-> jr, cr |-> cr,
                             sr |-> sr, oj |-> oj]
              /\ result' = out.res
              /\ calls' = out.calls
              /\ prompt' = IF out.res.pipeline_status = "success"
                           THEN SolverPrompt(q, out.res.routing.category)
                           ELSE NoneVal
    /\ phase' = "done"
    /\ UNCHANGED <<enable_guardrails, strict_mode, storeVars, optVars, raceVars, indexVars>>

\* RAGAgent.answer_question
DoAnswer ==
    /\ phase = "idle"
    /\ \E q \in Questions, c \in {"None", "algebra"}, chunks \in Retrievals,
          jr \in InputJudgeReplies, ar \in SolverReplies, oj \in OutputJudgeReplies :
          LET out == AnswerQuestion(q, c, chunks, enable_guardrails, strict_mode, jr, ar, oj)
          IN  /\ request' = [op |-> "rag", q |-> q, category |-> c, chunks |-> chunks,
                             jr |-> jr, sr |-> ar, oj |-> oj]
              /\ result' = out.res
              /\ calls' = out.calls
              /\ prompt' = NoneVal
    /\ phase' = "done"
    /\ UNCHANGED <<enable_guardrails, strict_mode, storeVars, optVars, raceVars, indexVars>>

\* GuardrailManager.get_safe_response
DoSafeResponse ==
    /\ phase = "idle"
    /\ \E q \in Questions, c \in {"None", "algebra"},
          sr \in { r \in SolverReplies : r.ok }, oj \in OutputJudgeReplies :
          LET out == GetSafeResponse(sr.content, q.text, c, oj)
          IN  /\ request' = [op |-> "safe", q |-> q, category |-> c, sr |-> sr, oj |-> oj]
              /\ result' = out.res
              /\ calls' = out.calls
              /\ prompt' = NoneVal
    /\ phase' = "done"
    /\ UNCHANGED <<enable_guardrails, strict_mode, storeVars, optVars, raceVars, indexVars>>

\* the caller takes the result; the agents serve the next request
NextRequest ==
    /\ phase = "done"
    /\ phase' = "idle"
    /\ request' = NoRequest
    /\ result' = NoneVal
    /\ calls' = <<>>
    /\ prompt' = NoneVal
    /\ UNCHANGED <<enable_guardrails, strict_mode, storeVars, optVars, raceVars, indexVars>>

PipeStart ==
    /\ phase = "idle"
    /\ request = NoRequest
    /\ result = NoneVal
    /\ calls = <<>>
    /\ prompt = NoneVal

\* the pipeline as the orchestrator's defaults construct it
PipeFixed ==
    /\ enable_guardrails = TRUE
    /\ strict_mode = TRUE
    /\ PipeStart

InitPipe ==
    /\ enable_guardrails \in BOOLEAN
    /\ strict_mode \in BOOLEAN
    /\ PipeStart

NextPipe ==
    \/ DoValidate
    \/ DoRoute
    \/ DoSolve
    \/ DoProcess
    \/ DoAnswer
    \/ DoSafeResponse
    \/ NextRequest


-----------------------------------------------------------------------------
(* FeedbackAgent: the persisted store *)

\* json.dump / json.load of the values an entry holds: None is written as
\* null, a string as a JSON string, a bool as true / false, an int as it is
JsonStr(v) == IF v = "None" THEN <<"null">> ELSE <<"string", v>>
JsonBool(b) == IF b THEN "true" ELSE "false"

FromJsonStr(j) == IF j = <<"null">> THEN "None" ELSE j[2]
FromJsonBool(j) == j = "true"

JsonDumpEntry(e) ==
    [timestamp |-> e.timestamp,
     problem |-> JsonStr(e.problem),
     category |-> JsonStr(e.category),
     solution |-> JsonStr(e.solution),
     rating |-> e.rating,
     comments |-> JsonStr(e.comments),
     correct_answer |-> JsonStr(e.correct_answer),
     approved |-> JsonBool(e.approved)]

JsonLoadEntry(j) ==
    [timestamp |-> j.timestamp,
     problem |-> FromJsonStr(j.problem),
     category |-> FromJsonStr(j.category),
     solution |-> FromJsonStr(j.solution),
     rating |-> j.rating,
     comments |-> FromJsonStr(j.comments),
     correct_answer |-> FromJsonStr(j.correct_answer),
     approved |-> FromJsonBool(j.approved)]

JsonDump(data) == [i \in 1..Len(data) |-> JsonDumpEntry(data[i])]
JsonLoad(text) == [i \in 1..Len(text) |-> JsonLoadEntry(text[i])]

\* no feedback file on disk
NoFile == [exists |-> FALSE, torn |-> FALSE, text |-> <<>>]

\* _load_feedback: [] when the file does not exist or does not parse (a file
\* opened for writing and not yet written is empty: json.load raises)
LoadFeedback(file) ==
    IF ~file.exists THEN <<>>
    ELSE IF file.torn THEN <<>>
    ELSE JsonLoad(file.text)

\* _save_feedback, first step: open(..., 'w') truncates the file
OpenForWrite(file) == [exists |-> TRUE, torn |-> TRUE, text |-> <<>>]

\* _save_feedback, second step: json.dump writes the list and the file is closed
SaveFeedback(data) == [exists |-> TRUE, torn |-> FALSE, text |-> JsonDump(data)]

\* the arguments of a collect_feedback call
FeedbackArgs ==
    { [problem |-> "p1", category |-> "algebra", solution |-> "s1", rating |-> 5,
       comments |-> "good", correct_answer |-> "None"],
      [problem |-> "p2", category |-> "algebra", solution |-> "s2", rating |-> 4,
       comments |-> "good", correct_answer |-> "None"],
      [problem |-> "p1", category |-> "algebra", solution |-> "s2", rating |-> 2,
       comments |-> "wrong", correct_answer |-> "x = 5"],
      [problem |-> "p1", category |-> "calculus", solution |-> "s1", rating |-> 5,
       comments |-> "good", correct_answer |-> "None"],
      [problem |-> "p2", category |-> "blocked", solution |-> "s1", rating |-> 1,
       comments |-> "wrong", correct_answer |-> "None"] }

\* a mutant of FeedbackEntry: only a rating of 5 is approved
FeedbackEntryStrict(a, time) ==
    [timestamp |-> time,
     problem |-> a.problem,
     category |-> a.category,
     solution |-> a.solution,
     rating |-> a.rating,
     comments |-> a.comments,
     correct_answer |-> a.correct_answer,
     approved |-> a.rating >= 5]

\* feedback_entry of collect_feedback
FeedbackEntry(a, time) ==
    [timestamp |-> time,
     problem |-> a.problem,
     category |-> a.category,
     solution |-> a.solution,
     rating |-> a.rating,
     comments |-> a.comments,
     correct_answer |-> a.correct_answer,
     approved |-> a.rating >= 4]

\* a mutant of AppendEntry: the new entry is put first
AppendEntryFirst(data, e) == <<e>> \o data

\* feedback_data.append(feedback_entry)
AppendEntry(data, e) == Append(data, e)

Clients == 1..NumClients

ClientIdle == [pc |-> "idle"]

\* open(..., 'r') and json.load of _load_feedback: they return ("ok") or
\* raise ("raises")
ReadOutcomes == {"ok", "raises"}

\* open(..., 'w') and json.dump of _save_feedback: they return ("ok"), open
\* raises ("fail"), or json.dump raises after open truncated the file ("torn")
WriteOutcomes == {"ok", "fail", "torn"}

\* _load_feedback when reading has outcome rd: an exception is logged and []
\* returned
LoadFeedbackIO(file, rd) ==
    IF file.exists /\ rd = "raises" THEN <<>> ELSE LoadFeedback(file)

\* _save_feedback when writing has outcome wr: an exception is logged, not
\* raised
SaveFeedbackIO(file, data, wr) ==
    CASE wr = "ok"   -> SaveFeedback(data)
      [] wr = "torn" -> OpenForWrite(file)
      [] OTHER       -> file

\* collect_feedback, run from its first to its last line with no other call
\* in between, when reading the file has outcome rd and writing it wr
CollectFeedbackIO(rd, wr) ==
    /\ now < MaxFeedback
    /\ \A c \in Clients : fb[c].pc = "idle"
    /\ \E a \in FeedbackArgs :
          LET e == FeedbackEntry(a, now + 1)
              data == AppendEntry(LoadFeedbackIO(feedback_file, rd), e)
          IN  /\ feedback_file' = SaveFeedbackIO(feedback_file, data, wr)
              /\ collected' = Append(collected, e)
    /\ now' = now + 1
    /\ learn_last' = "collect"
    /\ opt_request' = NoneVal
    /\ opt_result' = NoneVal
    /\ UNCHANGED <<cleared, fb, pipeVars, enable_dspy, optimized_solvers, solver_files>>
    /\ UNCHANGED <<raceVars, indexVars>>

\* collect_feedback during which reading or writing the file may fail
CollectFeedbackFaulty ==
    \E rd \in ReadOutcomes, wr \in WriteOutcomes : CollectFeedbackIO(rd, wr)

\* collect_feedback, run from its first to its last line with no other call
\* in between
CollectFeedback ==
    /\ now < MaxFeedback
    /\ \A c \in Clients : fb[c].pc = "idle"
    /\ \E a \in FeedbackArgs :
          LET e == FeedbackEntry(a, now + 1)
              data == AppendEntry(LoadFeedback(feedback_file), e)
          IN  /\ feedback_file' = SaveFeedback(data)
              /\ collected' = Append(collected, e)
    /\ now' = now + 1
    /\ learn_last' = "collect"
    /\ opt_request' = NoneVal
    /\ opt_result' = NoneVal
    /\ UNCHANGED <<cleared, fb, pipeVars, enable_dspy, optimized_solvers, solver_files>>
    /\ UNCHANGED <<raceVars, indexVars>>

\* the store is cleared: the feedback file is removed
ClearFeedbackStore ==
    /\ \A c \in Clients : fb[c].pc = "idle"
    /\ feedback_file' = NoFile
    /\ collected' = <<>>
    /\ cleared' = TRUE
    /\ learn_last' = "clear"
    /\ opt_request' = NoneVal
    /\ opt_result' = NoneVal
    /\ UNCHANGED <<now, fb, pipeVars, enable_dspy, optimized_solvers, solver_files>>
    /\ UNCHANGED <<raceVars, indexVars>>

\* a / b of Python: a float, kept as the fraction; the division raises
\* ZeroDivisionError when den is 0
Div(a, b) == [num |-> a, den |-> b]

\* the number n where the other values are fractions
Whole(n) == [num |-> n, den |-> 1]

\* sum(f["rating"] for f in data)
SumRatings(data) ==
    LET F[i \in 0..Len(data)] == IF i = 0 THEN 0 ELSE F[i - 1] + data[i].rating
    IN  F[Len(data)]

\* len([f for f in data if f.get("approved", False)])
CountApproved(data) == Len(SelectSeq(data, LAMBDA e : e.approved))

\* the entries of data whose category is cat
OfCategory(data, cat) == SelectSeq(data, LAMBDA e : e.category = cat)

\* get_feedback_stats on a store without entries
NoFeedbackStats ==
    [total_feedback |-> 0,
     average_rating |-> Whole(0),
     approved_count |-> 0,
     category_stats |-> [x \in {} |-> 0]]

\* get_feedback_stats, lines 79-109: the statistics of the entries
StatsOf(data) ==
    [total_feedback |-> Len(data),
     average_rating |-> Div(SumRatings(data), Len(data)),
     approved_count |-> CountApproved(data),
     approval_rate |-> Div(CountApproved(data), Len(data)),
     category_stats |->
        [cat \in { data[i].category : i \in 1..Len(data) } |->
            [count |-> Len(OfCategory(data, cat)),
             total_rating |-> SumRatings(OfCategory(data, cat)),
             approved |-> CountApproved(OfCategory(data, cat)),
             average_rating |-> Div(SumRatings(OfCategory(data, cat)),
                                    Len(OfCategory(data, cat)))]]]

\* a mutant of FeedbackStats: the empty store is not told apart
FeedbackStatsUnguarded(file) == StatsOf(LoadFeedback(file))

\* FeedbackAgent.get_feedback_stats: the dict returned
FeedbackStats(file) ==
    IF LoadFeedback(file) = <<>> THEN NoFeedbackStats ELSE StatsOf(LoadFeedback(file))

\* get_feedback_stats, which reads the file once
GetFeedbackStats ==
    /\ opt_result' = FeedbackStats(feedback_file)
    /\ opt_request' = NoneVal
    /\ learn_last' = "stats"
    /\ UNCHANGED <<pipeVars, storeVars, enable_dspy, optimized_solvers, solver_files,
                   raceVars, indexVars>>

\* collect_feedback of client c, lines 44-56: the entry is built and the
\* store is loaded
CollectLoad(c) ==
    /\ fb[c].pc = "idle"
    /\ now < MaxFeedback
    /\ \E a \in FeedbackArgs :
          fb' = [fb EXCEPT ![c] = [pc |-> "loaded",
                                   entry |-> FeedbackEntry(a, now + 1),
                                   data |-> LoadFeedback(feedback_file)]]
    /\ now' = now + 1
    /\ UNCHANGED <<feedback_file, collected, cleared, pipeVars, optVars, raceVars, indexVars>>

\* collect_feedback of client c, lines 59 and 159: the entry is appended to
\* the loaded list and the file is opened for writing
CollectOpen(c) ==
    /\ fb[c].pc = "loaded"
    /\ fb' = [fb EXCEPT ![c] = [pc |-> "writing",
                                entry |-> fb[c].entry,
                                data |-> AppendEntry(fb[c].data, fb[c].entry)]]
    /\ feedback_file' = OpenForWrite(feedback_file)
    /\ UNCHANGED <<now, collected, cleared, pipeVars, optVars, raceVars, indexVars>>

\* collect_feedback of client c, lines 160 and 64-65: the list is written
\* and the entry returned
CollectWrite(c) ==
    /\ fb[c].pc = "writing"
    /\ feedback_file' = SaveFeedback(fb[c].data)
    /\ collected' = Append(collected, fb[c].entry)
    /\ fb' = [fb EXCEPT ![c] = ClientIdle]
    /\ UNCHANGED <<now, cleared, pipeVars, optVars, raceVars, indexVars>>

StoreStart ==
    /\ feedback_file = NoFile
    /\ now = 0
    /\ collected = <<>>
    /\ cleared = FALSE
    /\ fb = [c \in Clients |-> ClientIdle]

-----------------------------------------------------------------------------
(* DSPyFeedbackOptimizer *)

\* "Need at least 3 examples": the feedback records a category needs
MinFeedback == 3
\* the training examples a category needs
MinExamples == 2

\* a Python dict with key k set to v
Put(f, k, v) == [x \in DOMAIN f \cup {k} |-> IF x = k THEN v ELSE f[x]]

EmptyDict == [x \in {} |-> NoneVal]

\* dict.get(k, default)
Get(f, k, default) == IF k \in DOMAIN f THEN f[k] ELSE default

\* _group_feedback_by_category: the keys, in the order of their first entry
GroupKeys(data) ==
    LET F[i \in 0..Len(data)] ==
            IF i = 0 THEN <<>>
            ELSE IF \E j \in 1..(i - 1) : data[j].category = data[i].category
                 THEN F[i - 1]
                 ELSE Append(F[i - 1], data[i].category)
    IN  F[Len(data)]

\* _group_feedback_by_category: the entries of one key
Group(data, cat) == SelectSeq(data, LAMBDA e : e.category = cat)

\* the categories the loop of optimize_from_feedback visits, in order
LoopKeys(data, category) ==
    IF category = "None" THEN GroupKeys(data) ELSE <<category>>

\* dspy.Example(problem, category, solution)
Example(e) == [problem |-> e.problem, category |-> e.category, solution |-> e.solution]

\* a mutant of TrainingExamples: every entry is a training example
TrainingExamplesAll(list) == [i \in 1..Len(list) |-> Example(list[i])]

\* _create_training_examples: the approved entries rated 4 or more
TrainingExamples(list) ==
    LET kept == SelectSeq(list, LAMBDA e : e.approved /\ e.rating >= 4)
    IN  [i \in 1..Len(kept) |-> Example(kept[i])]

\* dspy.ChainOfThought(MathSolverSignature): a solver with no demonstrations
BaseSolver == [demos |-> <<>>]

\* optimizer.compile(base_solver, trainset): the solver with the training
\* examples as its demonstrations
Compile(trainset) == [demos |-> trainset]

\* solver.save / solver.load: the demonstrations as JSON
DumpState(solver) ==
    [i \in 1..Len(solver.demos) |->
        [problem |-> JsonStr(solver.demos[i].problem),
         category |-> JsonStr(solver.demos[i].category),
         solution |-> JsonStr(solver.demos[i].solution)]]

LoadState(text) ==
    [demos |-> [i \in 1..Len(text) |->
        [problem |-> FromJsonStr(text[i].problem),
         category |-> FromJsonStr(text[i].category),
         solution |-> FromJsonStr(text[i].solution)]]]

\* _save_optimized_solver: the file is written ("ok"), left as it was because
\* save raised before writing ("fail"), or left truncated because save raised
\* while writing ("torn"); the exception is logged, not raised
SaveSolver(files, cat, solver, outcome) ==
    CASE outcome = "ok"   -> Put(files, cat, [torn |-> FALSE, text |-> DumpState(solver)])
      [] outcome = "torn" -> Put(files, cat, [torn |-> TRUE, text |-> <<>>])
      [] OTHER            -> files

\* _load_optimized_solvers: a file that does not load is skipped
LoadOptimizedSolvers(files) ==
    [c \in {x \in DOMAIN files : ~files[x].torn} |-> LoadState(files[c].text)]

OutcomeFor(o, cat) == IF cat \in DOMAIN o THEN o[cat] ELSE "ok"

\* a mutant of SkipCategory: a category with any feedback is compiled
SkipCategoryNever(list) == Len(list) < 1

\* "insufficient feedback": the category is skipped
SkipCategory(list) == Len(list) < MinFeedback

\* the loop of optimize_from_feedback over the categories `keys`: the
\* in-memory solvers, the files and optimized_categories after it
OptimizeLoop(data, keys, solvers, files, co, so) ==
    LET F[i \in 0..Len(keys)] ==
            IF i = 0 THEN [solvers |-> solvers, files |-> files, done |-> <<>>]
            ELSE LET prev == F[i - 1]
                     cat == keys[i]
                     list == Group(data, cat)
                     trainset == TrainingExamples(list)
                 IN  IF SkipCategory(list) THEN prev
                     ELSE IF Len(trainset) < MinExamples THEN prev
                     ELSE IF OutcomeFor(co, cat) = "fail" THEN prev
                     ELSE [solvers |-> Put(prev.solvers, cat, Compile(trainset)),
                           files |-> SaveSolver(prev.files, cat, Compile(trainset),
                                                OutcomeFor(so, cat)),
                           done |-> Append(prev.done, cat)]
    IN  F[Len(keys)]

\* DSPyFeedbackOptimizer.optimize_from_feedback
OptimizeFromFeedback(data, category, solvers, files, co, so) ==
    IF data = <<>>
    THEN [res |-> [status |-> "no_data", optimized_categories |-> <<>>],
          solvers |-> solvers, files |-> files]
    ELSE LET l == OptimizeLoop(data, LoopKeys(data, category), solvers, files, co, so)
         IN  [res |-> [status |-> IF l.done # <<>> THEN "success" ELSE "no_optimization",
                       optimized_categories |-> l.done,
                       total_feedback |-> Len(data)],
              solvers |-> l.solvers, files |-> l.files]

\* MathAgentOrchestrator.optimize_with_dspy
OptimizeWithDspyResult(enabled, data, category, solvers, files, co, so) ==
    IF ~enabled
    THEN [res |-> [status |-> "disabled", message |-> "DSPy optimization is not enabled"],
          solvers |-> solvers, files |-> files]
    ELSE IF data = <<>>
    THEN [res |-> [status |-> "no_data",
                   message |-> "No feedback data available for optimization"],
          solvers |-> solvers, files |-> files]
    ELSE OptimizeFromFeedback(data, category, solvers, files, co, so)

\* the category argument of optimize_with_dspy
OptimizeArgs == {"None", "algebra", "calculus", "geometry"}

\* the categories of a run that reach compile: each call of compile and of
\* save has an outcome
CompileCats(data, category) ==
    LET keys == LoopKeys(data, category)
    IN  { keys[i] : i \in { j \in 1..Len(keys) :
              /\ ~SkipCategory(Group(data, keys[j]))
              /\ Len(TrainingExamples(Group(data, keys[j]))) >= MinExamples } }

\* optimize_with_dspy, run from its first to its last line with no other
\* call in between
OptimizeWithDspy ==
    /\ \A c \in Clients : fb[c].pc = "idle"
    /\ LET data == LoadFeedback(feedback_file)
       IN  \E category \in OptimizeArgs :
           \E co \in [CompileCats(data, category) -> {"ok", "fail"}],
              so \in [CompileCats(data, category) -> {"ok", "fail", "torn"}] :
              LET out == OptimizeWithDspyResult(enable_dspy, data, category,
                                                optimized_solvers, solver_files, co, so)
              IN  /\ opt_request' = [category |-> category, data |-> data,
                                      co |-> co, so |-> so]
                  /\ opt_result' = out.res
                  /\ optimized_solvers' = out.solvers
                  /\ solver_files' = out.files
    /\ learn_last' = "optimize"
    /\ UNCHANGED <<pipeVars, storeVars, enable_dspy, raceVars, indexVars>>

\* an ExemplarSet persisted by an earlier run of the program
OldSolver ==
    [demos |-> << [problem |-> "p2", category |-> "algebra", solution |-> "s1"],
                  [problem |-> "p1", category |-> "algebra", solution |-> "s2"] >>]

\* the files data/dspy_optimized can hold when the program starts
StartFiles ==
    { EmptyDict,
      Put(EmptyDict, "algebra", [torn |-> FALSE, text |-> DumpState(OldSolver)]) }

\* DSPyFeedbackOptimizer.__init__ within MathAgentOrchestrator.__init__
InitOpt ==
    /\ enable_dspy \in BOOLEAN
    /\ solver_files \in StartFiles
    /\ optimized_solvers = IF enable_dspy THEN LoadOptimizedSolvers(solver_files)
                                          ELSE EmptyDict
    /\ learn_last = "none"
    /\ opt_request = NoneVal
    /\ opt_result = NoneVal

OptStart ==
    /\ enable_dspy = TRUE
    /\ solver_files = EmptyDict
    /\ optimized_solvers = EmptyDict
    /\ learn_last = "none"
    /\ opt_request = NoneVal
    /\ opt_result = NoneVal

\* the categories a solve_with_dspy call is made for
SolveCategories == {"algebra", "calculus"}

\* The replies of the DSPy solver.
DspyReplies ==
    { [ok |-> TRUE, content |-> "x = 5"],
      [ok |-> FALSE, err |-> "solver down"] }

\* MathAgentOrchestrator.solve_with_dspy and DSPyFeedbackOptimizer.solve_with_dspy:
\* the dict returned, what the solver was invoked with, and the model calls made
SolveWithDspy(problem, category, enabled, solvers, dr) ==
    IF ~enabled
    THEN [res |-> [error |-> "DSPy not enabled", solution |-> "None"],
          prompt |-> NoneVal,
          calls |-> <<>>]
    ELSE LET solver == Get(solvers, category, BaseSolver)
         IN  [res |-> IF dr.ok
                      THEN [solution |-> dr.content,
                            optimized |-> category \in DOMAIN solvers,
                            category |-> category]
                      ELSE [solution |-> "Error: " \o dr.err,
                            optimized |-> FALSE,
                            category |-> category],
              prompt |-> [template |-> "MathSolverSignature",
                          problem |-> problem,
                          demos |-> solver.demos],
              calls |-> <<"dspy_solver">>]

\* solve_with_dspy, run from its first to its last line with no other call in
\* between
DoSolveWithDspy ==
    /\ phase = "idle"
    /\ \E q \in Questions, category \in SolveCategories, dr \in DspyReplies :
          LET out == SolveWithDspy(q.text, category, enable_dspy, optimized_solvers, dr)
          IN  /\ request' = [op |-> "dspy", q |-> q, category |-> category, sr |-> dr]
              /\ result' = out.res
              /\ calls' = out.calls
              /\ prompt' = out.prompt
    /\ phase' = "done"
    /\ UNCHANGED <<enable_guardrails, strict_mode, storeVars, optVars, raceVars, indexVars>>

-----------------------------------------------------------------------------
(* Concurrent sessions on the optimizer: every session (app.py) has its own
   orchestrator and so its own DSPyFeedbackOptimizer; the feedback file and
   the directory data/dspy_optimized are shared *)

\* dict.get(k, default)
\* a feedback entry with rating r, collected at `time`
RaceEntry(problem, category, solution, r, time) ==
    FeedbackEntry([problem |-> problem, category |-> category, solution |-> solution,
                   rating |-> r, comments |-> "good", correct_answer |-> "None"], time)

\* the feedback the store holds while the sessions run: three records of
\* algebra, two of them training examples
RaceFeedback ==
    { << RaceEntry("p1", "algebra", "s1", 5, 1),
         RaceEntry("p2", "algebra", "s2", 4, 2),
         RaceEntry("p1", "algebra", "s2", 2, 3) >> }

OptIdle(solvers) ==
    [pc |-> "idle", optimized_solvers |-> solvers, data |-> <<>>,
     todo |-> <<>>, done |-> <<>>]

SlvIdle == [pc |-> "idle"]

\* the categories of the loop that are compiled, in the order of the loop
CompileKeys(data, category) ==
    SelectSeq(LoopKeys(data, category), LAMBDA k : k \in CompileCats(data, category))

\* the solver the run of session c compiles for the category it stands at
Compiling(c) == Compile(TrainingExamples(Group(opt[c].data, Head(opt[c].todo))))

\* the loop of optimize_from_feedback goes on to its next category, or the
\* run returns
NextCategory(o, done) ==
    IF Len(o.todo) > 1
    THEN [o EXCEPT !.pc = "compile", !.todo = Tail(o.todo), !.done = done]
    ELSE [o EXCEPT !.pc = "idle", !.todo = <<>>, !.done = done]

\* optimize_with_dspy is called in session c: the feedback is loaded and the
\* loop reaches the first category it compiles
OptBegin(c) ==
    /\ opt[c].pc = "idle"
    /\ enable_dspy
    /\ \E category \in OptimizeArgs :
          LET data == LoadFeedback(feedback_file)
              keys == CompileKeys(data, category)
          IN  opt' = [opt EXCEPT ![c] =
                        [pc |-> IF keys = <<>> THEN "idle" ELSE "compile",
                         optimized_solvers |-> opt[c].optimized_solvers,
                         data |-> data, todo |-> keys, done |-> <<>>]]
    /\ UNCHANGED <<slv, loaded, committed, pipeVars, storeVars, optVars, indexVars>>

\* optimizer.compile returns and the solver is put into optimized_solvers, or
\* compile raises and the loop goes on
OptCompile(c) ==
    /\ opt[c].pc = "compile"
    /\ \E ok \in BOOLEAN :
          opt' = [opt EXCEPT ![c] =
                    IF ok
                    THEN [opt[c] EXCEPT
                            !.pc = "save",
                            !.optimized_solvers =
                                Put(opt[c].optimized_solvers, Head(opt[c].todo), Compiling(c))]
                    ELSE NextCategory(opt[c], opt[c].done)]
    /\ UNCHANGED <<slv, loaded, committed, pipeVars, storeVars, optVars, indexVars>>

\* solver.save opens <category>_optimized.json for writing: the file is empty
\* until the state is written
OptSaveOpen(c) ==
    /\ opt[c].pc = "save"
    /\ solver_files' = Put(solver_files, Head(opt[c].todo), [torn |-> TRUE, text |-> <<>>])
    /\ opt' = [opt EXCEPT ![c].pc = "write"]
    /\ UNCHANGED <<slv, loaded, committed, pipeVars, storeVars, indexVars>>
    /\ UNCHANGED <<enable_dspy, optimized_solvers, learn_last, opt_request, opt_result>>

\* solver.save writes the state and closes the file; the category is appended
\* to optimized_categories
OptSaveWrite(c) ==
    /\ opt[c].pc = "write"
    /\ LET cat == Head(opt[c].todo)
           solver == opt[c].optimized_solvers[cat]
       IN  /\ solver_files' = Put(solver_files, cat,
                                  [torn |-> FALSE, text |-> DumpState(solver)])
           /\ committed' = Put(committed, cat, LoadState(DumpState(solver)))
           /\ opt' = [opt EXCEPT ![c] = NextCategory(opt[c], Append(opt[c].done, cat))]
    /\ UNCHANGED <<slv, loaded, pipeVars, storeVars, indexVars>>
    /\ UNCHANGED <<enable_dspy, optimized_solvers, learn_last, opt_request, opt_result>>

\* solve_with_dspy on the optimizer of session c, first read: the solver of
\* the category, or the base solver
SolveRead(c) ==
    /\ slv.pc = "idle"
    /\ \E category \in SolveCategories :
          slv' = [pc |-> "called", session |-> c, category |-> category,
                  solver |-> Get(opt[c].optimized_solvers, category, BaseSolver)]
    /\ UNCHANGED <<opt, loaded, committed, pipeVars, storeVars, optVars, indexVars>>

\* solve_with_dspy, the solver has answered: the second read says whether the
\* category is optimized; a call that raised says it is not
SolveReturn(c) ==
    /\ slv.pc = "called"
    /\ slv.session = c
    /\ \E ok \in BOOLEAN :
          slv' = IF ok
                 THEN [pc |-> "idle", category |-> slv.category, solver |-> slv.solver,
                       optimized |-> slv.category \in DOMAIN opt[c].optimized_solvers]
                 ELSE [pc |-> "idle", category |-> slv.category, optimized |-> FALSE]
    /\ UNCHANGED <<opt, loaded, committed, pipeVars, storeVars, optVars, indexVars>>

\* change_model in session c constructs a new DSPyFeedbackOptimizer, which
\* loads the solvers from disk
NewOptimizer(c) ==
    /\ opt[c].pc = "idle"
    /\ ~(slv.pc = "called" /\ slv.session = c)
    /\ enable_dspy
    /\ LET solvers == LoadOptimizedSolvers(solver_files)
       IN  /\ opt' = [opt EXCEPT ![c] = OptIdle(solvers)]
           /\ loaded' = [seen |-> committed, got |-> solvers]
    /\ UNCHANGED <<slv, committed, pipeVars, storeVars, optVars, indexVars>>

\* no session has done anything yet
RaceStart ==
    /\ opt = [c \in Clients |-> OptIdle(EmptyDict)]
    /\ slv = SlvIdle
    /\ loaded = NoneVal
    /\ committed = EmptyDict

-----------------------------------------------------------------------------
(* Document index: every session has its own VectorStoreManager on the one
   database at VECTOR_DB_PATH.  A call of the Chroma client or of a
   collection is one step; what Chroma does within a call is not modelled. *)

\* the largest number of index calls the sessions start
MaxIndexOps == 3

\* search(n_results = 5)
N_RESULTS == 5

\* the files uploaded, and the number of chunks load_document splits each into
Documents == {"a.txt", "b.txt", "empty.txt"}

ChunkCount(doc) ==
    CASE doc = "a.txt" -> 2
      [] doc = "b.txt" -> 1
      [] OTHER -> 0

\* the category argument of add_documents: two of the options of the
\* selectbox of book_learning.py
Categories == {"general", "other"}

\* the chunks add_documents makes of a file at time t: ids
\* <category>_<file name>_<time>_chunk_<idx>, metadata source, chunk_index,
\* total_chunks and category
NewChunks(doc, category, t) ==
    { [id |-> <<category, doc, t, idx>>, source |-> doc, chunk_index |-> idx,
       total_chunks |-> ChunkCount(doc), category |-> category] :
        idx \in 0..(ChunkCount(doc) - 1) }

\* the chunks written together with chunk ch
Siblings(ch) ==
    { [ch EXCEPT !.id = <<ch.id[1], ch.id[2], ch.id[3], idx>>, !.chunk_index = idx] :
        idx \in 0..(ch.total_chunks - 1) }

\* self.math_collection of session c: a call on it raises when the collection
\* does not exist; when the collection was deleted and created again since
\* the handle was taken, the call works if Chroma resolves handles by name
HandleOutcomes(c) ==
    IF ~collection.exists THEN {FALSE}
    ELSE IF collection.id = vsm[c].math_collection THEN {TRUE}
    ELSE {stale_works}

\* collection.delete(ids): as a call on the handle; Chroma decides whether it
\* raises when an id is no longer there
DeleteOutcomes(c) ==
    IF vsm[c].ids_to_delete \subseteq { ch.id : ch \in collection.chunks }
    THEN HandleOutcomes(c)
    ELSE HandleOutcomes(c) \cup {FALSE}

\* collection.query: at most n_results chunks, chosen by distance
TopN(chunks) ==
    IF Cardinality(chunks) <= N_RESULTS THEN {chunks}
    ELSE { r \in SUBSET chunks : Cardinality(r) = N_RESULTS }

\* the call of session c has returned
Returned(c, last) ==
    [pc |-> "idle", math_collection |-> vsm[c].math_collection, last |-> last]

\* collection.add(ids=...): as a call on the handle; with an id that the
\* collection already holds, Chroma decides whether it raises or ignores the
\* record of that id
AddOutcomes(c, ids) ==
    IF ids \cap { ch.id : ch \in collection.chunks } = {}
    THEN HandleOutcomes(c)
    ELSE HandleOutcomes(c) \cup {FALSE}

\* add_documents when datetime.now() reads second t: the chunks of the file
\* are added in one collection.add
AddDocumentsAt(c, t) ==
    /\ vsm[c].pc = "idle"
    /\ stamp < MaxIndexOps
    /\ stamp' = stamp + 1
    /\ \E doc \in Documents, category \in Categories :
          LET chunks == NewChunks(doc, category, t)
              ids == { ch.id : ch \in chunks }
          IN  \E ok \in AddOutcomes(c, ids) :
                LET added == chunks # {} /\ ok
                IN  /\ collection' =
                          IF added
                          THEN [collection EXCEPT !.chunks = collection.chunks \cup chunks]
                          ELSE collection
                    /\ vsm' = [vsm EXCEPT ![c] =
                          Returned(c, [op |-> "add", file_name |-> doc, category |-> category,
                                       success |-> added,
                                       chunks_added |-> IF added THEN Cardinality(chunks) ELSE 0])]
    /\ UNCHANGED <<pipeVars, storeVars, optVars, raceVars, stale_works>>

\* add_documents, called more than a second after the call before it
AddDocuments(c) == AddDocumentsAt(c, stamp + 1)

\* add_documents, called at any time: within the second of the call before
\* it, or later
UploadDocument(c) == \E t \in {stamp, stamp + 1} : AddDocumentsAt(c, t)

\* search: one collection.query; an exception gives no results
Search(c) ==
    /\ vsm[c].pc = "idle"
    /\ stamp < MaxIndexOps
    /\ stamp' = stamp + 1
    /\ \E ok \in HandleOutcomes(c) :
       \E found \in (IF ok THEN TopN(collection.chunks) ELSE {{}}) :
          vsm' = [vsm EXCEPT ![c] = Returned(c, [op |-> "search", results |-> found])]
    /\ UNCHANGED <<collection, pipeVars, storeVars, optVars, raceVars, stale_works>>

\* delete_document, first call: collection.get() and the ids whose source is
\* the document; with no such id, or an exception, it returns False
DeleteGet(c) ==
    /\ vsm[c].pc = "idle"
    /\ stamp < MaxIndexOps
    /\ stamp' = stamp + 1
    /\ \E name \in Documents, ok \in HandleOutcomes(c) :
          LET ids == { ch.id : ch \in { x \in collection.chunks : x.source = name } }
          IN  vsm' = [vsm EXCEPT ![c] =
                    IF ok /\ ids # {}
                    THEN [pc |-> "delete", math_collection |-> vsm[c].math_collection,
                          last |-> vsm[c].last, name |-> name, ids_to_delete |-> ids]
                    ELSE Returned(c, [op |-> "delete", name |-> name, result |-> FALSE])]
    /\ UNCHANGED <<collection, pipeVars, storeVars, optVars, raceVars, stale_works>>

\* delete_document, second call: collection.delete(ids_to_delete)
DeleteIds(c) ==
    /\ vsm[c].pc = "delete"
    /\ \E ok \in DeleteOutcomes(c) :
          LET removed == { ch \in collection.chunks : ch.id \in vsm[c].ids_to_delete }
          IN  /\ collection' =
                    IF ok THEN [collection EXCEPT !.chunks = collection.chunks \ removed]
                    ELSE collection
              /\ vsm' = [vsm EXCEPT ![c] =
                    Returned(c, IF ok
                                THEN [op |-> "delete", name |-> vsm[c].name, result |-> TRUE,
                                      ids |-> vsm[c].ids_to_delete, removed |-> removed]
                                ELSE [op |-> "delete", name |-> vsm[c].name,
                                      result |-> FALSE])]
    /\ UNCHANGED <<stamp, pipeVars, storeVars, optVars, raceVars, stale_works>>

\* clear_collection, first call: client.delete_collection("math_documents"),
\* which raises when there is no such collection
ClearDelete(c) ==
    /\ vsm[c].pc = "idle"
    /\ stamp < MaxIndexOps
    /\ stamp' = stamp + 1
    /\ IF collection.exists
       THEN /\ collection' = [collection EXCEPT !.exists = FALSE, !.chunks = {}]
            /\ vsm' = [vsm EXCEPT ![c].pc = "get"]
       ELSE /\ collection' = collection
            /\ vsm' = [vsm EXCEPT ![c] = Returned(c, [op |-> "clear", result |-> FALSE])]
    /\ UNCHANGED <<pipeVars, storeVars, optVars, raceVars, stale_works>>

\* clear_collection, _get_or_create_collection: client.get_collection
ClearGet(c) ==
    /\ vsm[c].pc = "get"
    /\ vsm' = [vsm EXCEPT ![c] =
            IF collection.exists
            THEN [pc |-> "idle", math_collection |-> collection.id,
                  last |-> [op |-> "clear", result |-> TRUE]]
            ELSE [vsm[c] EXCEPT !.pc = "create"]]
    /\ UNCHANGED <<collection, stamp, pipeVars, storeVars, optVars, raceVars, stale_works>>

\* clear_collection, _get_or_create_collection: client.create_collection,
\* which raises when the collection exists
ClearCreate(c) ==
    /\ vsm[c].pc = "create"
    /\ IF collection.exists
       THEN /\ collection' = collection
            /\ vsm' = [vsm EXCEPT ![c] = Returned(c, [op |-> "clear", result |-> FALSE])]
       ELSE /\ collection' = [exists |-> TRUE, id |-> collection.id + 1, chunks |-> {}]
            /\ vsm' = [vsm EXCEPT ![c] =
                    [pc |-> "idle", math_collection |-> collection.id + 1,
                     last |-> [op |-> "clear", result |-> TRUE]]]
    /\ UNCHANGED <<stamp, pipeVars, storeVars, optVars, raceVars, stale_works>>

\* VectorStoreManager.__init__ in every session: the collection exists and
\* every session holds it
IndexStart ==
    /\ collection = [exists |-> TRUE, id |-> 0, chunks |-> {}]
    /\ vsm = [c \in Clients |-> [pc |-> "idle", math_collection |-> 0, last |-> NoneVal]]
    /\ stamp = 0
    /\ stale_works = FALSE

\* the statistics with nothing in the index, also returned on an exception
EmptyStats ==
    [total_chunks |-> 0, categories |-> {}, unique_documents |-> 0, document_names |-> {}]

\* get_collection_stats of session c: count() and get() on its handle
GetCollectionStats(c) ==
    IF TRUE \notin HandleOutcomes(c) THEN EmptyStats
    ELSE IF Cardinality(collection.chunks) = 0 THEN EmptyStats
    ELSE [total_chunks |-> Cardinality(collection.chunks),
          categories |-> { ch.category : ch \in collection.chunks },
          unique_documents |-> Cardinality({ ch.source : ch \in collection.chunks }),
          document_names |-> { ch.source : ch \in collection.chunks }]

\* a mutant of DeleteResult: True also when no id was found
DeleteResultAlways(ids, ok) == ok

\* delete_document returns True when it found ids and deleting them did not
\* raise, False otherwise
DeleteResult(ids, ok) == ok /\ ids # {}

\* delete_document, run from its first to its last line with no other call
\* in between
DeleteDocument(c) ==
    /\ \A d \in Clients : vsm[d].pc = "idle"
    /\ stamp < MaxIndexOps
    /\ stamp' = stamp + 1
    /\ \E name \in Documents, ok \in HandleOutcomes(c) :
          LET removed == { ch \in collection.chunks : ch.source = name }
              ids == { ch.id : ch \in removed }
              deleted == DeleteResult(ids, ok)
          IN  /\ collection' =
                    IF deleted THEN [collection EXCEPT !.chunks = collection.chunks \ removed]
                    ELSE collection
              /\ vsm' = [vsm EXCEPT ![c] =
                    Returned(c, IF deleted
                                THEN [op |-> "delete", name |-> name, result |-> TRUE,
                                      ids |-> ids, removed |-> removed]
                                ELSE [op |-> "delete", name |-> name, result |-> FALSE])]
    /\ UNCHANGED <<pipeVars, storeVars, optVars, raceVars, stale_works>>

\* clear_collection, run from its first to its last line with no other call
\* in between: delete_collection, get_collection raises, create_collection
ClearCollection(c) ==
    /\ \A d \in Clients : vsm[d].pc = "idle"
    /\ stamp < MaxIndexOps
    /\ stamp' = stamp + 1
    /\ IF collection.exists
       THEN /\ collection' = [exists |-> TRUE, id |-> collection.id + 1, chunks |-> {}]
            /\ vsm' = [vsm EXCEPT ![c] =
                    [pc |-> "idle", math_collection |-> collection.id + 1,
                     last |-> [op |-> "clear", result |-> TRUE]]]
       ELSE /\ collection' = collection
            /\ vsm' = [vsm EXCEPT ![c] = Returned(c, [op |-> "clear", result |-> FALSE])]
    /\ UNCHANGED <<pipeVars, storeVars, optVars, raceVars, stale_works>>

-----------------------------------------------------------------------------
(* Specifications *)

Init == InitPipe /\ StoreStart /\ OptStart /\ RaceStart /\ IndexStart

\* the solve and RAG flows, one request at a time
SpecPipe == Init /\ [][NextPipe]_vars

InitLearn == PipeFixed /\ StoreStart /\ InitOpt /\ RaceStart /\ IndexStart

NextLearn ==
    \/ CollectFeedback
    \/ ClearFeedbackStore
    \/ OptimizeWithDspy

\* feedback collection and optimization, one call at a time
SpecLearn == InitLearn /\ [][NextLearn]_vars

InitStoreRace == PipeFixed /\ StoreStart /\ OptStart /\ RaceStart /\ IndexStart

NextStoreRace ==
    \E c \in Clients :
        \/ CollectLoad(c)
        \/ CollectOpen(c)
        \/ CollectWrite(c)

\* concurrent collect_feedback calls against one feedback file
SpecStoreRace == InitStoreRace /\ [][NextStoreRace]_vars

\* the sessions start with the solvers an earlier run left on disk
InitOptRace ==
    /\ PipeFixed
    /\ \E data \in RaceFeedback :
          /\ feedback_file = SaveFeedback(data)
          /\ collected = data
          /\ now = Len(data)
    /\ cleared = FALSE
    /\ fb = [c \in Clients |-> ClientIdle]
    /\ enable_dspy = TRUE
    /\ solver_files \in StartFiles
    /\ optimized_solvers = LoadOptimizedSolvers(solver_files)
    /\ learn_last = "none"
    /\ opt_request = NoneVal
    /\ opt_result = NoneVal
    /\ opt = [c \in Clients |-> OptIdle(LoadOptimizedSolvers(solver_files))]
    /\ slv = SlvIdle
    /\ loaded = NoneVal
    /\ committed = LoadOptimizedSolvers(solver_files)
    /\ IndexStart

NextOptRace ==
    \E c \in Clients :
        \/ OptBegin(c)
        \/ OptCompile(c)
        \/ OptSaveOpen(c)
        \/ OptSaveWrite(c)
        \/ SolveRead(c)
        \/ SolveReturn(c)
        \/ NewOptimizer(c)

\* concurrent optimization runs, solve_with_dspy calls and constructions of
\* the optimizer
SpecOptRace == InitOptRace /\ [][NextOptRace]_vars

\* the index is empty or holds a document of an earlier ingestion
InitIndexRace ==
    /\ PipeFixed /\ StoreStart /\ OptStart /\ RaceStart
    /\ \E chunks \in {{}, NewChunks("a.txt", "general", 0)} :
          collection = [exists |-> TRUE, id |-> 0, chunks |-> chunks]
    /\ vsm = [c \in Clients |-> [pc |-> "idle", math_collection |-> 0, last |-> NoneVal]]
    /\ stamp = 0
    /\ stale_works \in BOOLEAN

NextIndexRace ==
    \E c \in Clients :
        \/ AddDocuments(c)
        \/ Search(c)
        \/ DeleteGet(c)
        \/ DeleteIds(c)
        \/ ClearDelete(c)
        \/ ClearGet(c)
        \/ ClearCreate(c)

\* concurrent calls on the document index
SpecIndexRace == InitIndexRace /\ [][NextIndexRace]_vars

NextIndex ==
    \E c \in Clients :
        \/ AddDocuments(c)
        \/ Search(c)
        \/ DeleteDocument(c)
        \/ ClearCollection(c)

\* calls on the document index, one at a time
SpecIndex == InitIndexRace /\ [][NextIndex]_vars

NextUpload ==
    \E c \in Clients :
        \/ UploadDocument(c)
        \/ DeleteDocument(c)
        \/ ClearCollection(c)

\* uploads at any times, deletions and clears, one call at a time
SpecUpload == InitIndexRace /\ [][NextUpload]_vars

NextStoreFaults ==
    \/ CollectFeedbackFaulty
    \/ GetFeedbackStats

\* feedback collection with reads and writes of the file that may fail
SpecStoreFaults == Init /\ [][NextStoreFaults]_vars

\* the program starts with no feedback file, or with one that an earlier run
\* left truncated
InitStats ==
    /\ PipeFixed
    /\ feedback_file \in {NoFile, OpenForWrite(NoFile)}
    /\ now = 0
    /\ collected = <<>>
    /\ cleared = FALSE
    /\ fb = [c \in Clients |-> ClientIdle]
    /\ OptStart
    /\ RaceStart
    /\ IndexStart

NextStats ==
    \/ CollectFeedback
    \/ ClearFeedbackStore
    \/ GetFeedbackStats

\* feedback collection and statistics, one call at a time
SpecStats == InitStats /\ [][NextStats]_vars

\* change_model: a new DSPyFeedbackOptimizer is constructed, which loads the
\* solvers from disk (as a restart of the program does)
ChangeModel ==
    /\ \A c \in Clients : fb[c].pc = "idle"
    /\ enable_dspy
    /\ optimized_solvers' = LoadOptimizedSolvers(solver_files)
    /\ learn_last' = "change_model"
    /\ UNCHANGED <<pipeVars, storeVars, enable_dspy, solver_files, opt_request, opt_result,
                   raceVars, indexVars>>

\* the feedback the store holds when the optimization runs are made: two
\* categories that qualify; or one that qualifies, one with too few approved
\* records and one with two records, both approved
OptimizeFeedback ==
    { << RaceEntry("p1", "algebra", "s1", 5, 1),
         RaceEntry("p1", "calculus", "s1", 5, 2),
         RaceEntry("p2", "algebra", "s2", 4, 3),
         RaceEntry("p2", "calculus", "s2", 4, 4),
         RaceEntry("p1", "algebra", "s2", 2, 5),
         RaceEntry("p1", "calculus", "s2", 3, 6) >>,
      << RaceEntry("p1", "algebra", "s1", 5, 1),
         RaceEntry("p1", "calculus", "s1", 5, 2),
         RaceEntry("p2", "algebra", "s1", 4, 3),
         RaceEntry("p2", "calculus", "s2", 3, 4),
         RaceEntry("p1", "algebra", "s2", 4, 5),
         RaceEntry("p1", "calculus", "s2", 1, 6),
         RaceEntry("p1", "geometry", "s1", 5, 7),
         RaceEntry("p2", "geometry", "s2", 4, 8) >> }

InitOptimize ==
    /\ PipeFixed
    /\ \E data \in OptimizeFeedback :
          /\ feedback_file = SaveFeedback(data)
          /\ collected = data
          /\ now = Len(data)
    /\ cleared = FALSE
    /\ fb = [c \in Clients |-> ClientIdle]
    /\ InitOpt
    /\ RaceStart
    /\ IndexStart

NextOptimize ==
    \/ OptimizeWithDspy
    \/ ChangeModel

\* optimization runs over a store of several categories, and restarts
SpecOptimize == InitOptimize /\ [][NextOptimize]_vars

\* the store holds feedback enough to optimize algebra; the orchestrator has
\* loaded the solvers an earlier run left on disk
InitExemplar ==
    /\ PipeFixed
    /\ \E data \in RaceFeedback :
          /\ feedback_file = SaveFeedback(data)
          /\ collected = data
          /\ now = Len(data)
    /\ cleared = FALSE
    /\ fb = [c \in Clients |-> ClientIdle]
    /\ InitOpt
    /\ RaceStart
    /\ IndexStart

\* optimize_with_dspy called when the last request has returned to its caller
OptimizeBetweenRequests == phase = "idle" /\ OptimizeWithDspy

NextExemplar ==
    \/ OptimizeBetweenRequests
    \/ DoSolve
    \/ DoSolveWithDspy
    \/ NextRequest

\* optimization runs and solve requests of one orchestrator, one call at a
\* time; process_problem reaches the solver through solve_problem
SpecExemplar == InitExemplar /\ [][NextExemplar]_vars

-----------------------------------------------------------------------------
(* Claims on the pipeline *)

Range(seq) == { seq[i] : i \in 1..Len(seq) }

\* the last call ran InputGuardrail.validate
RanInputValidation ==
    /\ phase = "done"
    /\ \/ request.op = "validate"
       \/ request.op \in {"route", "process", "rag"} /\ enable_guardrails

\* the dict route_problem returned in the last call
RoutingOf == IF request.op = "process" THEN result.routing ELSE result

\* the verdict InputGuardrail.validate returned in the last call (a RAG result
\* holds it only when the input was blocked)
InputVerdictOf ==
    CASE request.op = "validate" -> result
      [] request.op \in {"route", "process"} -> RoutingOf.guardrail_details
      [] request.op = "rag" ->
            IF "guardrail_details" \in DOMAIN result THEN result.guardrail_details
            ELSE NoneVal

C2_BlockedSuppressesProcessing ==
    (phase = "done" /\ request.op = "process" /\ enable_guardrails
        /\ ~InputVerdictOf.valid)
        => /\ result.pipeline_status = "blocked_by_guardrail"
           /\ result.solution.solution = InputVerdictOf.reason
           /\ DOMAIN result.solution = {"solution", "category", "problem"}
           /\ Range(calls) \cap {"classifier", "solver", "output_judge"} = {}

\* C2 witness: the judge answered NO and the request was blocked
C2_Witness ==
    /\ phase = "done"
    /\ request.op = "process"
    /\ enable_guardrails
    /\ calls = <<"input_judge">>
    /\ ~InputVerdictOf.valid
    /\ result.pipeline_status = "blocked_by_guardrail"
    /\ result.solution.solution = "off topic"

\* C3 as stated: the category of every result of route_problem is one of the
\* five problem types, whatever the input validator's verdict.
C3_Original ==
    (phase = "done" /\ request.op = "route")
        => result.category \in PROBLEM_TYPES

\* C3 as amended: the category route_problem returns is "blocked" exactly
\* when the input validator rejected the question (guardrail_status blocked),
\* and one of the five problem types in every other case, whatever the
\* classifier replied and also when the classifier call failed.
C3_CategoryInSetUnlessBlocked ==
    (phase = "done" /\ request.op \in {"route", "process"})
        => \/ /\ RoutingOf.guardrail_status = "blocked"
              /\ RoutingOf.category = "blocked"
              /\ enable_guardrails
              /\ ~RoutingOf.guardrail_details.valid
           \/ /\ RoutingOf.guardrail_status \in {"approved", "disabled"}
              /\ RoutingOf.category \in PROBLEM_TYPES
              /\ enable_guardrails => RoutingOf.guardrail_details.valid

\* C3 witness: the classifier emitted an out-of-set token and the routing
\* category is general
C3_Witness ==
    /\ phase = "done"
    /\ request.op = "route"
    /\ request.cr.ok
    /\ request.cr.category \in {"Physics", "Blocked"}
    /\ "classifier" \in Range(calls)
    /\ result.category = "general"

\* the guardrail outcomes the data model names
GuardrailOutcomes == {"approved", "modified", "blocked", "disabled", "error"}

\* the dict whose guardrail outcome the last call returned
OutcomeCarrier == IF request.op = "process" THEN result.solution ELSE result

\* C4 as stated: every result of solve_problem, every solution of
\* process_problem and every RAG answer carries a guardrail outcome that is
\* one of approved, modified, blocked, disabled, error.
C4_Original ==
    (phase = "done" /\ request.op \in {"solve", "process", "rag"})
        => /\ "guardrail_status" \in DOMAIN OutcomeCarrier
           /\ OutcomeCarrier.guardrail_status \in GuardrailOutcomes

\* C4 as amended: solve_problem returns a guardrail outcome that is one of
\* approved, modified, error (approved also with guardrails disabled);
\* answer_question one of approved, modified, error, input_blocked,
\* no_context; the solution of process_problem carries the solver's outcome
\* unless the input was blocked, where the solution dict carries no guardrail
\* outcome and the block is reported by pipeline_status blocked_by_guardrail,
\* guardrail_blocked and the routing's guardrail_status blocked.
C4_GuardrailOutcomeValues ==
    /\ (phase = "done" /\ request.op = "solve")
          => result.guardrail_status \in {"approved", "modified", "error"}
    /\ (phase = "done" /\ request.op = "rag")
          => result.guardrail_status \in
                {"approved", "modified", "error", "input_blocked", "no_context"}
    /\ (phase = "done" /\ request.op = "process")
          => IF result.pipeline_status = "blocked_by_guardrail"
             THEN /\ "guardrail_status" \notin DOMAIN result.solution
                  /\ result.guardrail_blocked
                  /\ result.routing.guardrail_status = "blocked"
             ELSE /\ result.solution.guardrail_status \in {"approved", "modified", "error"}
                  /\ result.guardrail_output_status = result.solution.guardrail_status

\* C4 witness: a solve request with guardrails disabled, whose outcome is
\* approved
C4_Witness ==
    /\ phase = "done"
    /\ request.op = "solve"
    /\ ~enable_guardrails
    /\ request.sr.ok
    /\ result.guardrail_status = "approved"

\* the last request was a RAG question that passed the input guardrail and
\* for which retrieval returned no chunk
RetrievedNothing ==
    /\ phase = "done"
    /\ request.op = "rag"
    /\ request.chunks = <<>>
    /\ result.guardrail_status # "input_blocked"

\* C13: when retrieval returns no chunks, answer_question returns
\* success = false, context_used = 0, no sources and the "no relevant
\* information" answer, and no model is invoked to generate or to validate an
\* answer.
C13_NoContextNoModel ==
    RetrievedNothing
        => /\ result.success = FALSE
           /\ result.context_used = 0
           /\ result.sources = {}
           /\ result.answer = NoContextAnswer
           /\ "rag_model" \notin Range(calls)
           /\ "output_judge" \notin Range(calls)

\* C13 witness: guardrails on, the input judge approved the question and
\* retrieval returned nothing
C13_Witness ==
    /\ RetrievedNothing
    /\ enable_guardrails
    /\ calls = <<"input_judge">>
    /\ result.guardrail_status = "no_context"

\* the output validator was consulted on the candidate answer of this request
RanOutputValidation ==
    /\ phase = "done"
    /\ request.op \in {"solve", "process", "rag", "safe"}
    /\ "output_judge" \in Range(calls)

\* the category the output validator was given
ValidatedCategory ==
    IF request.op = "process" THEN result.routing.category ELSE request.category

\* the text the caller receives
ReturnedText ==
    CASE request.op = "safe"    -> result
      [] request.op = "rag"     -> result.answer
      [] request.op = "process" -> result.solution.solution
      [] OTHER                  -> result.solution

\* the guardrail status the caller receives (get_safe_response returns the
\* text alone)
ReturnedStatus ==
    CASE request.op = "process" -> result.solution.guardrail_status
      [] OTHER                  -> result.guardrail_status

\* the output judge replied and did not approve
JudgeRejected == request.oj.ok /\ ~HasYes(request.oj.approved)

\* the output judge replied and approved
JudgeApproved == request.oj.ok /\ HasYes(request.oj.approved)

\* C14: when the output validator rejects the candidate answer, solve_problem,
\* answer_question and get_safe_response return the fallback message that
\* echoes the question, not the candidate, and the status is modified; an
\* approved candidate is returned unchanged.
C14_RejectedAnswerReplaced ==
    RanOutputValidation =>
        /\ JudgeRejected =>
              /\ ReturnedText = CreateFallbackResponse(request.q.text, ValidatedCategory)
              /\ ReturnedText # request.sr.content
              /\ request.op # "safe" => ReturnedStatus = "modified"
        /\ JudgeApproved =>
              /\ ReturnedText = request.sr.content
              /\ request.op # "safe" => ReturnedStatus = "approved"

C14_Witness ==
    /\ RanOutputValidation
    /\ JudgeRejected
    /\ request.op = "safe"
    /\ ReturnedText = CreateFallbackResponse(request.q.text, "algebra")

\* the input judge was invoked in the last call and the invocation raised
InputJudgeFailed ==
    /\ RanInputValidation
    /\ "input_judge" \in Range(calls)
    /\ ~request.jr.ok

\* the last call stopped at the input guardrail
StoppedAtInput ==
    CASE request.op = "validate" -> ~result.valid
      [] request.op = "route"    -> result.guardrail_status = "blocked"
      [] request.op = "process"  -> /\ result.pipeline_status = "blocked_by_guardrail"
                                    /\ result.routing.guardrail_status = "blocked"
      [] request.op = "rag"      -> result.guardrail_status = "input_blocked"

\* C15: when the input judge call fails, the verdict is valid = false in
\* strict mode and valid = true in non-strict mode; in strict mode the request
\* is blocked and neither the classifier nor the solver is invoked.
C15_InputJudgeFailure ==
    InputJudgeFailed =>
        /\ InputVerdictOf # NoneVal =>
              /\ InputVerdictOf.valid = ~strict_mode
              /\ InputVerdictOf.category = "error"
        /\ strict_mode =>
              /\ InputVerdictOf # NoneVal
              /\ StoppedAtInput
              /\ calls = <<"input_judge">>
        /\ ~strict_mode =>
              /\ ~StoppedAtInput
              /\ request.op = "rag" => InputVerdictOf = NoneVal

C15_Witness ==
    /\ InputJudgeFailed
    /\ strict_mode
    /\ request.op = "process"
    /\ result.pipeline_status = "blocked_by_guardrail"

\* C15 in non-strict mode: the request goes on to the classifier
C15_WitnessOpen ==
    /\ InputJudgeFailed
    /\ ~strict_mode
    /\ request.op = "process"
    /\ "classifier" \in Range(calls)

\* the output judge was invoked in the last call and the invocation raised
OutputJudgeFailed == RanOutputValidation /\ ~request.oj.ok

\* the verdict of the output validator, where the returned dict holds it
OutputVerdictOf ==
    CASE request.op = "solve"   -> result.guardrail_details
      [] request.op = "process" -> result.solution.guardrail_details
      [] OTHER                  -> NoneVal

\* C16: when the output judge call fails, the verdict is approved with the
\* error recorded in its issues, and the candidate answer is returned unchanged
\* with status approved, in the solve flow and in the RAG flow.
C16_OutputJudgeFailure ==
    OutputJudgeFailed =>
        /\ ReturnedText = request.sr.content
        /\ request.op # "safe" => ReturnedStatus = "approved"
        /\ request.op = "rag" => result.success
        /\ request.op = "process" => result.pipeline_status = "success"
        /\ OutputVerdictOf # NoneVal =>
              /\ OutputVerdictOf.approved
              /\ OutputVerdictOf.issues = <<"Validation error: " \o request.oj.err>>
              /\ OutputVerdictOf.modified_response = request.sr.content

C16_Witness ==
    /\ OutputJudgeFailed
    /\ request.op = "rag"
    /\ result.answer = "x = 5"
    /\ result.guardrail_status = "approved"

\* C16 in the solve flow: the verdict holds the error
C16_WitnessSolve ==
    /\ OutputJudgeFailed
    /\ request.op = "process"
    /\ result.solution.guardrail_details.issues = <<"Validation error: judge down">>

\* the classifier was invoked in the last call, and the invocation raised or
\* its reply names no category of the fixed set
ClassifierFailed ==
    /\ phase = "done"
    /\ request.op \in {"route", "process"}
    /\ "classifier" \in Range(calls)
    /\ \/ ~request.cr.ok
       \/ request.cr.ok /\ ParsedCategory(request.cr) \notin PROBLEM_TYPES

\* C17: if the classifier call raises or returns a token outside the fixed
\* category set, route_problem returns category general, and process_problem
\* goes on to the solver, for category general, and returns pipeline_status
\* success.
C17_ClassificationNeverFails ==
    ClassifierFailed =>
        /\ RoutingOf.category = "general"
        /\ RoutingOf.guardrail_status \in {"approved", "disabled"}
        /\ request.op = "process" =>
              /\ result.pipeline_status = "success"
              /\ "solver" \in Range(calls)
              /\ result.solution.category = "general"

C17_Witness ==
    /\ ClassifierFailed
    /\ request.op = "process"
    /\ request.cr.ok
    /\ request.cr.category = "Physics"
    /\ result.solution.guardrail_status = "approved"

\* C17 when the classifier call raised
C17_WitnessRaised ==
    /\ ClassifierFailed
    /\ request.op = "process"
    /\ ~request.cr.ok
    /\ result.pipeline_status = "success"

\* the model invocation named by call was made in the last request and raised
CallFailed(call, reply) ==
    /\ phase = "done"
    /\ call \in Range(calls)
    /\ ~reply.ok

InputJudgeRaised == "jr" \in DOMAIN request /\ CallFailed("input_judge", request.jr)
ClassifierRaised == "cr" \in DOMAIN request /\ CallFailed("classifier", request.cr)
SolverRaised     == "sr" \in DOMAIN request /\ CallFailed("solver", request.sr)
AnswerRaised     == "sr" \in DOMAIN request /\ CallFailed("rag_model", request.sr)
OutputJudgeRaised == "oj" \in DOMAIN request /\ CallFailed("output_judge", request.oj)

\* some model invocation of the last request raised
ProviderFailure ==
    InputJudgeRaised \/ ClassifierRaised \/ SolverRaised \/ AnswerRaised \/ OutputJudgeRaised

\* the texts in which the code embeds the text of an exception
ErrorTexts(err) ==
    { "Error solving problem: " \o err,
      "Error generating answer: " \o err,
      "Validation error: " \o err,
      "Error in routing: " \o err }

\* the texts of the exceptions raised in the last request
RaisedTexts ==
    (IF InputJudgeRaised THEN {request.jr.err} ELSE {})
        \cup (IF ClassifierRaised THEN {request.cr.err} ELSE {})
        \cup (IF SolverRaised \/ AnswerRaised THEN {request.sr.err} ELSE {})
        \cup (IF OutputJudgeRaised THEN {request.oj.err} ELSE {})

CallRank(call) ==
    CASE call = "input_judge"  -> 1
      [] call = "classifier"   -> 2
      [] call = "solver"       -> 3
      [] call = "output_judge" -> 4
      [] OTHER                 -> 0

\* the last request was a process_problem whose input was not blocked
ApprovedSolveRequest ==
    /\ phase = "done"
    /\ request.op = "process"
    /\ result.routing.guardrail_status # "blocked"

\* C19: in a solve request whose input is approved the model invocations are
\* made in the order input judge, classifier, solver, output judge, each at
\* most once: an invocation that raised is not made again. With guardrails
\* enabled the input judge, the classifier and the solver are each invoked
\* once, and the output judge once unless the solver raised.
C19_CallOrder ==
    ApprovedSolveRequest =>
        /\ \A i \in 1..Len(calls) : CallRank(calls[i]) > 0
        /\ \A i, j \in 1..Len(calls) : i < j => CallRank(calls[i]) < CallRank(calls[j])
        /\ {"classifier", "solver"} \subseteq Range(calls)
        /\ enable_guardrails =>
              /\ calls[1] = "input_judge"
              /\ request.sr.ok <=> "output_judge" \in Range(calls)
        /\ ~enable_guardrails => calls = <<"classifier", "solver">>

\* C19 witness: a request in which the classifier raised and all four
\* invocations were made
C19_Witness ==
    /\ ApprovedSolveRequest
    /\ ClassifierRaised
    /\ calls = <<"input_judge", "classifier", "solver", "output_judge">>

-----------------------------------------------------------------------------
(* Claims on the feedback store and the optimization loop *)

\* no collect_feedback call is in progress
AllCallsFinished == \A c \in Clients : fb[c].pc = "idle"

\* C5 as stated: once all concurrent collect_feedback calls have finished,
\* every record they appended is in the persisted store.
C5_NoLostRecord ==
    AllCallsFinished
        => \A i \in 1..Len(collected) :
              collected[i] \in Range(LoadFeedback(feedback_file))

\* C9: starting from an empty store, the records read back after N
\* collect_feedback calls are exactly the N records appended, in insertion
\* order; after a clear the store reads as zero records.
C9_RoundTrip ==
    /\ LoadFeedback(feedback_file) = collected
    /\ Len(LoadFeedback(feedback_file)) = Len(collected)
    /\ learn_last = "clear" => LoadFeedback(feedback_file) = <<>>

\* C9 witness: two different records appended after a clear
C9_Witness ==
    /\ cleared
    /\ learn_last = "collect"
    /\ Len(collected) = 2
    /\ collected[1].category # collected[2].category
    /\ collected[1].rating # collected[2].rating

\* the sum of the count fields of category_stats
RECURSIVE SumCounts(_)
SumCounts(cs) ==
    IF DOMAIN cs = {} THEN 0
    ELSE LET k == CHOOSE x \in DOMAIN cs : TRUE
         IN  cs[k].count + SumCounts([x \in DOMAIN cs \ {k} |-> cs[x]])

\* the number of entries rated 4 or more
RatedFourOrMore(data) == Cardinality({ i \in 1..Len(data) : data[i].rating >= 4 })

\* what C22 says of the dict st that get_feedback_stats returns for the
\* entries data
StatsAreSound(data, st) ==
    IF data = <<>>
    THEN /\ st.total_feedback = 0
         /\ st.average_rating = Whole(0)
         /\ st.approved_count = 0
         /\ DOMAIN st.category_stats = {}
    ELSE /\ st.total_feedback = Len(data)
         /\ st.average_rating.den > 0
         /\ st.approval_rate.den > 0
         /\ st.approved_count = RatedFourOrMore(data)
         /\ SumCounts(st.category_stats) = st.total_feedback
         /\ \A cat \in DOMAIN st.category_stats :
               /\ st.category_stats[cat].average_rating.den > 0
               /\ st.category_stats[cat].count > 0

\* C22: get_feedback_stats never divides by zero: on an empty store it
\* returns total 0, average_rating 0, approved_count 0 and empty
\* category_stats; on a non-empty store approved_count is the number of
\* records rated 4 or more and the per-category counts sum to the total.
C22_StatsNeverFail ==
    [][ GetFeedbackStats => StatsAreSound(LoadFeedback(feedback_file), opt_result') ]_vars

\* C22 witness: statistics of a store of three records in two categories
C22_Witness ==
    /\ learn_last = "stats"
    /\ Len(LoadFeedback(feedback_file)) = 3
    /\ opt_result.total_feedback = 3
    /\ Cardinality(DOMAIN opt_result.category_stats) = 2
    /\ opt_result.approved_count = 2

\* C22 on an emptied store: statistics after a clear
C22_WitnessEmpty ==
    /\ learn_last = "stats"
    /\ cleared
    /\ opt_result.total_feedback = 0

\* the same on a file that does not parse: the load fails and the statistics
\* are those of an empty store
StatsOfTornFile ==
    /\ learn_last = "stats"
    /\ feedback_file.torn
    /\ opt_result.total_feedback = 0

\* C23: every record of the feedback store has approved = (rating >= 4), as
\* read back from the file after any sequence of collect_feedback calls and
\* clears, and as returned to the callers.
C23_ApprovedFollowsRating ==
    /\ \A i \in 1..Len(LoadFeedback(feedback_file)) :
          LoadFeedback(feedback_file)[i].approved
              <=> LoadFeedback(feedback_file)[i].rating >= 4
    /\ \A i \in 1..Len(collected) : collected[i].approved <=> collected[i].rating >= 4

\* C23 witness: a store that holds a record rated 4, approved, and a record
\* rated 2, not approved
C23_Witness ==
    LET data == LoadFeedback(feedback_file)
    IN  /\ Len(data) = 3
        /\ \E i \in 1..3 : data[i].rating = 4 /\ data[i].approved
        /\ \E i \in 1..3 : data[i].rating = 2 /\ ~data[i].approved

\* every category of the feedback has fewer than 3 records
AllBelowMinimum(data) ==
    \A i \in 1..Len(data) : Len(Group(data, data[i].category)) < 3

\* optimized_categories of a result (a result without the key names none)
OptimizedOf(res) ==
    IF "optimized_categories" \in DOMAIN res THEN res.optimized_categories ELSE <<>>

\* C10 as stated: when every category has fewer than 3 feedback records, an
\* optimization run returns an empty optimized set with status no_data or
\* skipped.
C10_Original ==
    (learn_last = "optimize" /\ enable_dspy /\ AllBelowMinimum(opt_request.data))
        => /\ opt_result.status \in {"no_data", "skipped"}
           /\ OptimizedOf(opt_result) = <<>>

\* C10 as amended: when every category has fewer than 3 feedback records, an
\* optimization run names no optimized category, its status is no_data when
\* there is no feedback at all and no_optimization otherwise (disabled when
\* DSPy is not enabled), and it leaves every ExemplarSet, in memory and
\* persisted, as it was.
C10_SkippedRunChangesNothing ==
    [][ (learn_last' = "optimize" /\ AllBelowMinimum(opt_request'.data))
            => /\ opt_result'.status =
                    (IF ~enable_dspy THEN "disabled"
                     ELSE IF opt_request'.data = <<>> THEN "no_data"
                     ELSE "no_optimization")
               /\ OptimizedOf(opt_result') = <<>>
               /\ UNCHANGED <<optimized_solvers, solver_files>> ]_vars

\* C10 witness: a run over two records of one category, with an ExemplarSet
\* committed before it
C10_Witness ==
    /\ learn_last = "optimize"
    /\ enable_dspy
    /\ Len(opt_request.data) = 2
    /\ opt_request.data[1].category = opt_request.data[2].category
    /\ opt_request.data[1].approved /\ opt_request.data[2].approved
    /\ opt_request.category = "None"
    /\ opt_result.status = "no_optimization"
    /\ "algebra" \in DOMAIN optimized_solvers
    /\ "algebra" \in DOMAIN solver_files

\* every chunk in the index is there with all the chunks written with it, so
\* a search never returns a chunk of a partly written document
SearchSeesWholeDocuments ==
    \A ch \in collection.chunks : Siblings(ch) \subseteq collection.chunks

\* a delete_document that returned True left none of the chunks it found and
\* removed chunks of its document only
DeleteActsOnSnapshot ==
    \A c \in Clients :
        (vsm[c].last # NoneVal /\ vsm[c].last.op = "delete" /\ vsm[c].last.result)
            => /\ \A ch \in collection.chunks : ch.id \notin vsm[c].last.ids
               /\ \A ch \in vsm[c].last.removed : ch.source = vsm[c].last.name

\* a clear_collection returns True, as it does in every serial order of the
\* calls
ClearIsSerial ==
    \A c \in Clients :
        (vsm[c].last # NoneVal /\ vsm[c].last.op = "clear") => vsm[c].last.result

\* C6 as stated: the index writes are serialized against each other and
\* against search: no search sees part of a document, a delete_document that
\* returns True acted on a consistent snapshot, and overlapping writes have
\* the outcome of a serial order.
C6_IndexWritesSerialized ==
    /\ SearchSeesWholeDocuments
    /\ DeleteActsOnSnapshot
    /\ ClearIsSerial

\* a finished solve_with_dspy call says "optimized" exactly when the solver it
\* used was an optimized one
SolveReadsOneSet ==
    (slv.pc = "idle" /\ "solver" \in DOMAIN slv)
        => (slv.optimized <=> slv.solver # BaseSolver)

\* an optimizer constructed from disk holds, for every category with a
\* committed ExemplarSet, that set
LoadReadsCommittedSet ==
    loaded # NoneVal
        => \A cat \in DOMAIN loaded.seen :
              /\ cat \in DOMAIN loaded.got
              /\ loaded.got[cat] = loaded.seen[cat]

\* C7 as stated: a solve request concurrent with an optimization run reads
\* either the complete previous ExemplarSet of its category or the complete
\* new one, in memory (solve_with_dspy) and from disk (an optimizer
\* constructed while a save is in progress).
C7_NoTornExemplarSet ==
    /\ SolveReadsOneSet
    /\ LoadReadsCommittedSet

\* session c is compiling category cat
IsCompiling(c, cat) == opt[c].pc = "compile" /\ Head(opt[c].todo) = cat

\* session c is compiling category cat or committing it
CompilesOrCommits(c, cat) ==
    opt[c].pc \in {"compile", "save", "write"} /\ Head(opt[c].todo) = cat

\* C8 as stated: while one optimization run is compiling a category, no
\* second run compiles or commits that category.
C8_OneRunPerCategory ==
    \A c1, c2 \in Clients : \A cat \in PROBLEM_TYPES :
        (c1 # c2 /\ IsCompiling(c1, cat)) => ~CompilesOrCommits(c2, cat)

-----------------------------------------------------------------------------
(* Claims on an optimization run over several categories *)

\* the last operation was an optimization run that reached the loop
RanOptimization ==
    /\ learn_last = "optimize"
    /\ enable_dspy
    /\ opt_request.data # <<>>

\* the categories of the last run that reached compile
Qualifying == CompileCats(opt_request.data, opt_request.category)

\* the set the last run compiles for cat
CompiledSet(cat) == Compile(TrainingExamples(Group(opt_request.data, cat)))

\* the last run compiled cat and holds its set in memory
CompiledInMemory(cat) ==
    /\ cat \in Range(OptimizedOf(opt_result))
    /\ cat \in DOMAIN optimized_solvers
    /\ optimized_solvers[cat] = CompiledSet(cat)

\* the set persisted for cat is the one the last run compiled
PersistedCompiled(cat) ==
    /\ cat \in DOMAIN solver_files
    /\ ~solver_files[cat].torn
    /\ LoadState(solver_files[cat].text) = CompiledSet(cat)

\* C21: in an optimization run a failure while compiling or committing one
\* category does not abort the run: every qualifying category whose compile
\* and commit succeed is compiled, committed and reported, and a category
\* whose compile or commit failed is not reported as optimized.
C21_FailureIsolated ==
    RanOptimization =>
        /\ opt_result.status \in {"success", "no_optimization"}
        /\ \A cat \in Qualifying :
              IF opt_request.co[cat] = "ok" /\ opt_request.so[cat] = "ok"
              THEN CompiledInMemory(cat) /\ PersistedCompiled(cat)
              ELSE cat \notin Range(OptimizedOf(opt_result))

\* what the code does: a category whose compile failed is not reported and
\* the other categories are compiled and reported; a category whose compile
\* succeeded is reported whether or not its commit succeeded
CompileFailureIsolated ==
    RanOptimization =>
        /\ opt_result.status \in {"success", "no_optimization"}
        /\ Range(OptimizedOf(opt_result)) = { cat \in Qualifying : opt_request.co[cat] = "ok" }
        /\ \A cat \in Qualifying :
              /\ (opt_request.co[cat] = "ok") => CompiledInMemory(cat)
              /\ (opt_request.co[cat] = "ok" /\ opt_request.so[cat] = "ok")
                    => PersistedCompiled(cat)

\* a run over two qualifying categories in which one compile failed and the
\* other category was committed
TwoCategoriesOneFailed ==
    /\ RanOptimization
    /\ Qualifying = {"algebra", "calculus"}
    /\ opt_request.co["algebra"] = "fail"
    /\ opt_request.co["calculus"] = "ok" /\ opt_request.so["calculus"] = "ok"
    /\ opt_result.optimized_categories = <<"calculus">>

\* the approved records of cat in the feedback of the last run, in order
ApprovedOf(cat) ==
    SelectSeq(opt_request.data, LAMBDA e : e.category = cat /\ e.approved)

\* the number of records of cat in the feedback of the last run
RecordsOf(cat) ==
    Cardinality({ i \in 1..Len(opt_request.data) : opt_request.data[i].category = cat })

\* the categories the last run was to consider
Considered ==
    IF opt_request.category = "None"
    THEN { opt_request.data[i].category : i \in 1..Len(opt_request.data) }
    ELSE {opt_request.category}

\* C24: a category is compiled only if it has at least 3 feedback records of
\* which at least 2 are approved, and its training examples are exactly its
\* approved records; a category with fewer records, one requested explicitly
\* that has no feedback included, is skipped and the run returns normally.
C24_CompileThresholds ==
    RanOptimization =>
        /\ opt_result.status \in {"success", "no_optimization"}
        /\ Range(OptimizedOf(opt_result)) \subseteq Considered
        /\ \A cat \in Range(OptimizedOf(opt_result)) :
              /\ RecordsOf(cat) >= 3
              /\ Len(ApprovedOf(cat)) >= 2
              /\ optimized_solvers[cat].demos =
                    [i \in 1..Len(ApprovedOf(cat)) |->
                        [problem |-> ApprovedOf(cat)[i].problem,
                         category |-> cat,
                         solution |-> ApprovedOf(cat)[i].solution]]
        /\ \A cat \in Considered :
              (RecordsOf(cat) >= 3 /\ Len(ApprovedOf(cat)) >= 2
                    /\ opt_request.co[cat] = "ok")
                 => cat \in Range(OptimizedOf(opt_result))

\* C24 witness: a run over all categories that compiles algebra and skips
\* calculus, which has three records of which one is approved, and geometry,
\* which has two records, both approved
C24_Witness ==
    /\ RanOptimization
    /\ opt_request.category = "None"
    /\ Considered = {"algebra", "calculus", "geometry"}
    /\ opt_result.optimized_categories = <<"algebra">>
    /\ Len(optimized_solvers["algebra"].demos) = 3

\* C24 on a category requested explicitly that has no feedback
C24_WitnessNoFeedback ==
    /\ RanOptimization
    /\ opt_request.category = "geometry"
    /\ RecordsOf("geometry") = 0
    /\ opt_result.status = "no_optimization"

\* C25: after a run, for every category in optimized_categories the
\* persisted ExemplarSet is exactly the newly compiled set that solving
\* reads in memory, so that an optimizer constructed afterwards (restart or
\* change_model) loads that same set.
C25_PersistedIsCompiled ==
    RanOptimization =>
        \A cat \in Range(OptimizedOf(opt_result)) :
            /\ CompiledInMemory(cat)
            /\ PersistedCompiled(cat)
            /\ cat \in DOMAIN LoadOptimizedSolvers(solver_files)
            /\ LoadOptimizedSolvers(solver_files)[cat] = optimized_solvers[cat]

\* what the code does: the set persisted for a reported category is the one
\* in memory when the commit of that category succeeded
CommittedSetIsReloaded ==
    RanOptimization =>
        \A cat \in Range(OptimizedOf(opt_result)) :
            /\ CompiledInMemory(cat)
            /\ (opt_request.so[cat] = "ok") =>
                  /\ PersistedCompiled(cat)
                  /\ LoadOptimizedSolvers(solver_files)[cat] = optimized_solvers[cat]

\* a run reported algebra, its commit failed, and the optimizer constructed
\* afterwards solves algebra with the prior set
PriorSetAfterRestart ==
    /\ learn_last = "change_model"
    /\ opt_result # NoneVal
    /\ opt_result.status = "success"
    /\ "algebra" \in Range(OptimizedOf(opt_result))
    /\ opt_request.so["algebra"] = "fail"
    /\ "algebra" \in DOMAIN optimized_solvers
    /\ optimized_solvers["algebra"] = OldSolver
    /\ OldSolver # CompiledSet("algebra")

-----------------------------------------------------------------------------
(* Claims on the use of the ExemplarSets *)

\* the last call was a solve-flow request in which the solver was invoked
SolveFlowSolved ==
    /\ phase = "done"
    /\ request.op \in {"solve", "process"}
    /\ prompt # NoneVal

\* the last optimization run of this orchestrator committed a set for cat
CommittedSet(cat) ==
    /\ learn_last = "optimize"
    /\ "optimized_categories" \in DOMAIN opt_result
    /\ cat \in Range(opt_result.optimized_categories)
    /\ cat \in DOMAIN optimized_solvers

\* C20: once an optimization run has committed an ExemplarSet for a category,
\* a solve-flow request for that category invokes the solver with the entries
\* of that set as demonstrations; when the category has no ExemplarSet the
\* solver is invoked with the base prompt.
C20_ExemplarsInjected ==
    SolveFlowSolved =>
        /\ CommittedSet(OutcomeCarrier.category) =>
              /\ prompt.demos = optimized_solvers[OutcomeCarrier.category].demos
              /\ prompt.demos # <<>>
        /\ OutcomeCarrier.category \notin DOMAIN optimized_solvers =>
              prompt = SolverPrompt(request.q, OutcomeCarrier.category)

\* what the code does: the solve flow invokes the solver with the base prompt
\* of the category whatever the optimizer holds
SolveFlowUsesBasePrompt ==
    SolveFlowSolved => prompt = SolverPrompt(request.q, OutcomeCarrier.category)

\* solve_with_dspy is the call that uses the ExemplarSet of the category
DspySolveUsesExemplars ==
    (phase = "done" /\ request.op = "dspy" /\ prompt # NoneVal) =>
        /\ CommittedSet(request.category) =>
              prompt.demos = optimized_solvers[request.category].demos
        /\ request.category \notin DOMAIN optimized_solvers => prompt.demos = <<>>

-----------------------------------------------------------------------------
(* Claims on the document index, one call at a time *)

\* C11: a delete_document that finds no chunk of the name returns False and
\* leaves get_collection_stats as it was; a clear_collection on an empty
\* index returns True and the statistics are count 0, no sources, no
\* categories.
C11_IndexIdempotence ==
    [][ \A c \in Clients :
          /\ (DeleteDocument(c)
                /\ vsm'[c].last.name \notin { ch.source : ch \in collection.chunks })
                => /\ ~vsm'[c].last.result
                   /\ GetCollectionStats(c)' = GetCollectionStats(c)
                   /\ collection' = collection
          /\ (ClearCollection(c) /\ collection.chunks = {})
                => /\ vsm'[c].last.result
                   /\ GetCollectionStats(c)' = EmptyStats ]_vars

\* C11 witness: a delete_document of a document not in the index, which
\* holds another document, has returned False
C11_Witness ==
    \E c \in Clients :
        /\ vsm[c].last # NoneVal
        /\ vsm[c].last.op = "delete"
        /\ ~vsm[c].last.result
        /\ vsm[c].last.name = "b.txt"
        /\ GetCollectionStats(c).document_names = {"a.txt"}

\* the chunks in the index whose source is the document
ChunksOf(name) == { ch \in collection.chunks : ch.source = name }

\* a delete_document of session c for a document with chunks in the index
\* returns True, removes its chunks and leaves the others
DeleteRemoves(c) ==
    (DeleteDocument(c) /\ ChunksOf(vsm'[c].last.name) # {})
        => /\ vsm'[c].last.result
           /\ collection'.chunks = collection.chunks \ ChunksOf(vsm'[c].last.name)
           /\ (collection.chunks = ChunksOf(vsm'[c].last.name)
                 => GetCollectionStats(c)' = EmptyStats)

\* C12 as stated: once add_documents has succeeded for a document,
\* delete_document with its file name returns True and removes every chunk
\* whose source is that name, leaving the chunks of other sources; an index
\* holding only that document is back to count 0 and no sources.
C12_DeleteRemovesDocument ==
    [][ \A c \in Clients : DeleteRemoves(c) ]_vars

\* the same for a session whose collection handle is the collection that
\* exists now
DeleteRemovesThroughCurrentHandle ==
    [][ \A c \in Clients :
          collection.id = vsm[c].math_collection => DeleteRemoves(c) ]_vars

-----------------------------------------------------------------------------
(* Claims on the feedback store under failures of the file *)

\* every record of s is in t, unmodified, at the same position
IsPrefix(s, t) ==
    /\ Len(s) <= Len(t)
    /\ \A i \in 1..Len(s) : t[i] = s[i]

\* C27: the persisted feedback collection is append-only, calls during which
\* reading or writing the persisted collection fails included: after a
\* collect_feedback call every record persisted before it is still present,
\* unmodified, at the same position.
C27_AppendOnly ==
    [][ CollectFeedbackFaulty =>
          IsPrefix(LoadFeedback(feedback_file), LoadFeedback(feedback_file')) ]_vars

\* what the code does: a collect_feedback call whose read and write succeed
\* keeps the records persisted before it and adds the new one after them
AppendOnlyWithoutFailure ==
    [][ CollectFeedbackIO("ok", "ok") =>
          /\ IsPrefix(LoadFeedback(feedback_file), LoadFeedback(feedback_file'))
          /\ Len(LoadFeedback(feedback_file')) = Len(LoadFeedback(feedback_file)) + 1 ]_vars

\* three collect_feedback calls have returned their records and the file
\* holds the last one alone: reading the file failed during the third call
OnlyLastRecordPersisted ==
    /\ Len(collected) = 3
    /\ ~feedback_file.torn
    /\ LoadFeedback(feedback_file) = <<collected[3]>>

-----------------------------------------------------------------------------
(* Claims on the identifiers of the chunks *)

\* the identifiers of the chunks in the index
IndexIds == { ch.id : ch \in collection.chunks }

\* the identifiers the add_documents call that session c has made generated,
\* when datetime.now() read second t
GeneratedIds(c, t) ==
    { ch.id : ch \in NewChunks(vsm[c].last.file_name, vsm[c].last.category, t) }

\* C26: chunk identifiers never collide, repeated uploads of a file with the
\* same name and category at any times included: the identifiers an
\* add_documents call generates are not those of chunks in the index.
C26_IdsNeverCollide ==
    [][ \A c \in Clients : \A t \in {stamp, stamp + 1} :
          AddDocumentsAt(c, t) => GeneratedIds(c, t)' \cap IndexIds = {} ]_vars

\* what the code does: the identifiers of uploads made in different seconds
\* do not collide
IdsDistinctAcrossSeconds ==
    [][ \A c \in Clients :
          AddDocuments(c) => GeneratedIds(c, stamp + 1)' \cap IndexIds = {} ]_vars

\* an upload reported its chunks as added and the index holds no more chunks
\* than before: the file was uploaded twice within one second
UploadAddedNothing ==
    \E c \in Clients :
        /\ vsm[c].last # NoneVal
        /\ vsm[c].last.op = "add"
        /\ vsm[c].last.success
        /\ vsm[c].last.chunks_added = 2
        /\ stamp = 2
        /\ Cardinality(collection.chunks) = 2

-----------------------------------------------------------------------------
(* Claims on index calls through a handle whose collection is gone *)

\* every call on self.math_collection of session c raises: the collection
\* the handle refers to does not exist
HandleFails(c) == TRUE \notin HandleOutcomes(c)

\* C28: when an index operation fails because the collection is missing, a
\* read (search, get_collection_stats) returns an empty result and recreates
\* an empty index so that later operations on the same handle succeed; a
\* write (add_documents, delete_document, clear_collection) reports failure
\* without raising.
C28_MissingCollection ==
    [][ \A c \in Clients :
          /\ (Search(c) /\ HandleFails(c))
                => /\ vsm'[c].last.results = {}
                   /\ GetCollectionStats(c) = EmptyStats
                   /\ collection'.exists
                   /\ ~HandleFails(c)'
          /\ (AddDocuments(c) /\ HandleFails(c)) => ~vsm'[c].last.success
          /\ (DeleteGet(c) /\ HandleFails(c))
                => vsm'[c].pc = "idle" /\ ~vsm'[c].last.result
          /\ (ClearDelete(c) /\ ~collection.exists)
                => vsm'[c].pc = "idle" /\ ~vsm'[c].last.result ]_vars

\* what the code does: a read through a failing handle returns an empty
\* result and leaves the index and the handle as they were; a write reports
\* failure
MissingCollectionReported ==
    [][ \A c \in Clients :
          /\ (Search(c) /\ HandleFails(c))
                => /\ vsm'[c].last.results = {}
                   /\ GetCollectionStats(c) = EmptyStats
                   /\ collection' = collection
                   /\ vsm'[c].math_collection = vsm[c].math_collection
          /\ (AddDocuments(c) /\ HandleFails(c)) => ~vsm'[c].last.success
          /\ (DeleteGet(c) /\ HandleFails(c))
                => vsm'[c].pc = "idle" /\ ~vsm'[c].last.result
          /\ (ClearDelete(c) /\ ~collection.exists)
                => vsm'[c].pc = "idle" /\ ~vsm'[c].last.result ]_vars

\* a search of a session returned nothing while another session was between
\* the two calls of its clear_collection
SearchedWhileMissing ==
    \E c \in Clients :
        /\ vsm[c].last # NoneVal
        /\ vsm[c].last.op = "search"
        /\ vsm[c].last.results = {}
        /\ ~collection.exists

-----------------------------------------------------------------------------
(* Claims on two handles on the same index *)

\* C30: with two VectorStoreManager handles on the same index, after any
\* sequence of add_documents, delete_document and clear_collection through
\* one handle a search through the other answers from exactly the chunks
\* currently in the index.
C30_SearchSeesIndex ==
    [][ \A c \in Clients :
          Search(c) => vsm'[c].last.results \in TopN(collection.chunks) ]_vars

\* what the code does: a search through a handle taken since the last
\* clear_collection answers from the chunks in the index
SearchThroughCurrentHandle ==
    [][ \A c \in Clients :
          (Search(c) /\ collection.id = vsm[c].math_collection)
             => vsm'[c].last.results \in TopN(collection.chunks) ]_vars

\* a session cleared the index and ingested a document, and the search of
\* the other session, the third call, found nothing
IngestedAfterClearNotFound ==
    \E c, d \in Clients :
        /\ c # d
        /\ stamp = 3
        /\ vsm[c].last # NoneVal
        /\ vsm[c].last.op = "add"
        /\ vsm[c].last.success
        /\ vsm[c].math_collection = collection.id
        /\ collection.id = 1
        /\ vsm[d].last # NoneVal
        /\ vsm[d].last.op = "search"
        /\ vsm[d].last.results = {}

-----------------------------------------------------------------------------
(* Claims on the category values that are stored *)

\* C29: category values are restricted to algebra, calculus, geometry,
\* statistics and general everywhere they are stored: the category of every
\* feedback record, every key of the optimized solvers (in memory and on
\* disk) and the category tag of every chunk of the index is one of them.
C29_CategoriesInEnum ==
    /\ \A i \in 1..Len(LoadFeedback(feedback_file)) :
          LoadFeedback(feedback_file)[i].category \in PROBLEM_TYPES
    /\ DOMAIN optimized_solvers \subseteq PROBLEM_TYPES
    /\ DOMAIN solver_files \subseteq PROBLEM_TYPES
    /\ \A ch \in collection.chunks : ch.category \in PROBLEM_TYPES

\* the feedback given on a blocked result is stored with category "blocked"
BlockedFeedbackStored ==
    \E i \in 1..Len(LoadFeedback(feedback_file)) :
        LoadFeedback(feedback_file)[i].category = "blocked"

\* an upload tagged "other" in the document front-end is in the index
ChunkTaggedOther ==
    \E ch \in collection.chunks : ch.category = "other"

====
